---- MODULE Spec2Model ----
(***************************************************************************)
(* Verification model of the document synchronization and task             *)
(* orchestration engine of vector-knowledge-base-mcp-server.               *)
(*                                                                         *)
(* Three stores are modelled: the relational store (knowledge bases,       *)
(* tasks, uploads, documents, chunk rows), the blob store and the vector   *)
(* index.  Every call to the blob store, the vector index and the queue    *)
(* may fail; the outcome is chosen nondeterministically.  Request handlers *)
(* and workers run in different processes, so each is split at its         *)
(* relational commits and external calls and the pieces interleave.        *)
(*                                                                         *)
(* SpecKb  : knowledge-base deletion handler and the cleanup_kb_task job.  *)
(* SpecDoc : upload and background processing of documents.                *)
(* SpecDel : one upload and one task, with the deletion of documents and   *)
(*           uploads.                                                      *)
(* SpecUp  : the upload handler with its answers, and one processing task. *)
(* SpecSync: one upload and one task, with synchronization passes of       *)
(*           process_document run while no background run is in progress.  *)
(* SpecExp : cleanup_temp_files over uploads that age.                     *)
(* SpecRows: the three deletions of rows that tasks refer to, one request  *)
(*           at a time, with stores that answer.                           *)
(* SpecTask: the task service called with ids with and without a row.      *)
(* SpecSub : processing submissions with any list of upload results.       *)
(* SpecKbSvc: delete_kb of the service with every outcome of the stores.   *)
(* SpecVerify: uploads with every run of the read-back check.              *)
(* SpecPreview: previews with any chunk sizes.                             *)
(* SpecChunkId: calls of generate_chunk_id between uploads and tasks.      *)
(* SpecKbJob: SpecKb with the database failing inside the job as well.     *)
(* SpecDocJob: the cleanup_doc_task job with every outcome of the stores.  *)
(* SpecSubKb: processing submissions addressed to two knowledge bases.     *)
(* SpecDup : SpecUp with files in which a passage occurs twice.            *)
(* SpecKbFair: SpecKb with handlers and workers that keep running.         *)
(***************************************************************************)
EXTENDS Integers, Sequences, FiniteSets, TLC

(* ---------------------------- bounds ----------------------------------- *)
NumKb == 1                      \* knowledge bases 1..NumKb
NumContents == 2                \* file contents 1..NumContents
MaxUploads == 2                 \* rows ever inserted into document_uploads
MaxDocTasks == 2                \* process_doc tasks ever created
SmallUploads == 1               \* upload rows in the small worlds
SmallTasks == 1                 \* processing tasks in the small worlds

(* ----------------------- program constants ----------------------------- *)
max_retries == 5                \* kb_cleanup_task.py: max_retries=5
default_retry_delay == 20       \* kb_cleanup_task.py: default_retry_delay=20
BackoffCap == 300               \* kb_cleanup_task.py: min(300, ...)
CommitEvery == 100              \* document_processor.py: i % 100 == 0
vector_store_batch_size == 100  \* config.py: vector_store_batch_size

NULL == 0                       \* SQL NULL in an integer column (ids start at 1)
None == "<None>"                \* Python None in an optional string
KbIds == 1..NumKb
MaxTasks == NumKb               \* one delete task per knowledge base
DocKb == 1                      \* the knowledge base the documents live in
Names == {"a.txt"}              \* file names that are uploaded
Contents == 1..NumContents

VARIABLES
    tasks,        \* processing_tasks table: sequence of rows, id = index
    kbExists,     \* knowledge_bases table: kb id -> row present
    kbBlob,       \* blob store: kb id -> objects remain under prefix kb_<id>/
    kbVec,        \* vector index: kb id -> collection kb_<id> exists
    hpc,          \* delete_knowledge_base handler: kb id -> position
    htask,        \* delete_knowledge_base handler: kb id -> task.id it created
    job,          \* cleanup_kb_task messages: task id -> delivery state
    uploads,      \* document_uploads table: sequence of rows, id = index
    documents,    \* documents table: sequence of rows, id = index
    chunks,       \* document_chunks table: set of committed rows
    vector,       \* vector index collection kb_1: set of entries
    blob,         \* blob store: object path -> content (0 = no object)
    proc,         \* process_document_background runs: task id -> position
    delreq,       \* delete_document: the request in progress and its result
    upResp,       \* upload_documents: the result of the latest call
    sync,         \* process_document: the synchronization pass in progress
    aged,         \* number of document_uploads rows (ids 1..aged) created
                  \* more than 24 hours ago
    cleanup,      \* cleanup_temp_files: the call in progress and its result
    kbdel,        \* KnowledgeBaseService.delete_kb: the call in progress and
                  \* its result
    call          \* the latest call of the other operations: its inputs,
                  \* what it did on the way and what it returned

kbVars == <<kbExists, kbBlob, kbVec, hpc, htask, job>>
docVars == <<uploads, documents, chunks, vector, blob, proc, delreq, upResp,
             sync>>
reqVars == <<aged, cleanup, kbdel, call>>
vars == <<tasks, kbVars, docVars, reqVars>>

(* ------------------------ pure helpers --------------------------------- *)
Min(a, b) == IF a <= b THEN a ELSE b

RECURSIVE Pow2(_)
Pow2(n) == IF n = 0 THEN 1 ELSE 2 * Pow2(n - 1)

\* Python truthiness of an optional string argument
Truthy(v) == v # None /\ v # ""

TerminalStatus == {"completed", "failed"}

(* ----------------- ProcessingTaskService ------------------------------- *)
\* create_task: a row with status pending; the handle is whatever was passed
create_task(ts, kb, upload, celery) ==
    Append(ts, [status |-> "pending", knowledge_base_id |-> kb,
                document_upload_id |-> upload, document_id |-> NULL,
                celery_task_id |-> celery, error_message |-> None])

\* variant: an unknown id gets a row of its own
update_status_Upsert(ts, id, status, err, celery) ==
    IF id \notin DOMAIN ts
    THEN Append(ts, [status |-> status, knowledge_base_id |-> NULL,
                     document_upload_id |-> NULL, document_id |-> NULL,
                     celery_task_id |-> celery, error_message |-> err])
    ELSE [ts EXCEPT ![id] =
            [@ EXCEPT !.status = status,
                      !.error_message = IF Truthy(err) THEN err ELSE @,
                      !.celery_task_id = IF Truthy(celery) THEN celery ELSE @]]

\* update_status: unknown id is a no-op; otherwise status is overwritten
\* unconditionally, error_message / celery_task_id only when truthy
update_status(ts, id, status, err, celery) ==
    IF id \notin DOMAIN ts
    THEN ts
    ELSE [ts EXCEPT ![id] =
            [@ EXCEPT !.status = status,
                      !.error_message = IF Truthy(err) THEN err ELSE @,
                      !.celery_task_id = IF Truthy(celery) THEN celery ELSE @]]

mark_processing(ts, id) == update_status(ts, id, "processing", None, None)
mark_completed(ts, id) == update_status(ts, id, "completed", None, None)
mark_failed(ts, id, err) == update_status(ts, id, "failed", err, None)

\* what update_status and the mark_* helpers return: None for an unknown
\* id, otherwise the refreshed row, here its id
update_status_returns(ts, id) == IF id \notin DOMAIN ts THEN None ELSE id

(* ----------------- cleanup_kb_task: retry arithmetic ------------------- *)
\* variant: the exponent is the retry count instead of the attempt number
BackoffDelay_FromRetries(retries) ==
    Min(BackoffCap, default_retry_delay * Pow2(retries))

\* delay = min(300, 20 * (2**attempt)) with attempt = self.request.retries + 1
BackoffDelay(retries) ==
    Min(BackoffCap, default_retry_delay * Pow2(retries + 1))

\* variant: the budget counts executions instead of re-submissions
RetryExceeded_CountsRuns(retries) == retries + 1 >= max_retries

\* self.retry(): the job is re-submitted unless retries + 1 > max_retries
RetryExceeded(retries) == retries + 1 > max_retries

NoJob == [state |-> "none", kb_id |-> NULL, retries |-> 0, runs |-> 0,
          delays |-> <<>>, closes |-> 0, last |-> "none",
          retried |-> FALSE]

(* ----------------- blob paths, hashes, chunk identity ------------------ *)
TempPath(name) == <<"temp", name>>      \* f"kb_{kb_id}/temp/{file_name}"
PermPath(name) == <<"perm", name>>      \* f"kb_{kb_id}/{file_name}"
Paths == {TempPath(n) : n \in Names} \cup {PermPath(n) : n \in Names}

\* hashlib.sha256(content).hexdigest(): collision-free digest of the content
FileHash(content) == <<"sha256", content>>

\* text splitter: content c yields the chunk texts 1, 2 and c + 2, so two
\* contents share their first two chunks and differ in the third
\* a file in which a passage occurs twice: its first two chunks have the
\* same text (and, coming from the same loader document, the same metadata)
RepeatingContent == NumContents + 1
Split(content) ==
    IF content = RepeatingContent THEN <<1, 1, content + 2>>
    ELSE <<1, 2, content + 2>>

\* chunk.metadata as the loader made it, and after the worker added source,
\* kb_id, document_id and chunk_id to it
RawMeta == [augmented |-> FALSE, document_id |-> NULL]
AugMeta(doc) == [augmented |-> TRUE, document_id |-> doc]

\* sha256(chunk_content + str(chunk_metadata))
ContentHash(text, meta) == <<text, meta>>

\* variant: the digest is salted with the number of rows in the store
generate_chunk_id_Salted(kb, name, text, meta) ==
    <<ContentHash(text, meta), <<kb, name, ContentHash(text, meta)>>,
      Len(uploads)>>

\* generate_chunk_id: (chunk_hash, chunk_id)
generate_chunk_id(kb, name, text, meta) ==
    <<ContentHash(text, meta), <<kb, name, ContentHash(text, meta)>>>>

\* the DocumentChunk rows process_document_background builds for a document
ChunkRows(kb, name, doc, content) ==
    [i \in 1..Len(Split(content)) |->
        [id |-> generate_chunk_id(kb, name, Split(content)[i], RawMeta)[2],
         document_id |-> doc,
         file_name |-> name,
         hash |-> ContentHash(Split(content)[i], AugMeta(doc))]]

\* rows committed inside the loop: db.commit() at every i > 0, i % 100 == 0
\* (i counted from 0) commits the rows 0..i
EarlyCommitted(rows) ==
    LET hits == {i \in 1..(Len(rows) - 1) : i % CommitEvery = 0}
    IN  IF hits = {} THEN {}
        ELSE {rows[j] : j \in 1..((CHOOSE i \in hits : \A k \in hits : k <= i) + 1)}

\* the vector entries of the first n batches of add_documents
VectorEntries(rows, nbatches) ==
    {[chunk_id |-> rows[j].id, document_id |-> rows[j].document_id] :
        j \in {k \in 1..Len(rows) : k <= nbatches * vector_store_batch_size}}

NumBatches(rows) ==
    (Len(rows) + vector_store_batch_size - 1) \div vector_store_batch_size

RowsOf(rows) == {rows[i] : i \in 1..Len(rows)}

\* flushing rows fails on a primary-key clash or a missing parent document
FlushFails(rows, cs, docs) ==
    \/ \E i \in 1..Len(rows) : \E c \in cs : c.id = rows[i].id
    \/ \E i, j \in 1..Len(rows) : i # j /\ rows[i].id = rows[j].id
    \/ \E i \in 1..Len(rows) : ~docs[rows[i].document_id].present

NoProc == [pc |-> "none", upload |-> NULL, file_name |-> NULL,
           content |-> NULL, doc |-> NULL, pending |-> <<>>]
NoSync == [pc |-> "idle", file_name |-> NULL, doc |-> NULL, content |-> NULL,
           new_chunks |-> <<>>]
NoKbDelete == [pc |-> "idle", kb |-> NULL, cleanup_errors |-> <<>>,
               resp |-> [kind |-> "none"]]
NoCleanup == [pc |-> "idle", expired_uploads |-> <<>>, todo |-> <<>>,
              resp |-> [kind |-> "none"]]
NoDelete == [pc |-> "idle", id |-> NULL, doc |-> NULL, upload |-> NULL,
             chroma_deleted |-> FALSE, minio_deleted |-> FALSE,
             raised |-> {}, resp |-> [kind |-> "none"]]

(* ------------------------------ Init ----------------------------------- *)
Init ==
    /\ tasks = <<>>
    /\ kbExists = [k \in KbIds |-> TRUE]
    /\ kbBlob = [k \in KbIds |-> TRUE]
    /\ kbVec = [k \in KbIds |-> TRUE]
    /\ hpc = [k \in KbIds |-> "idle"]
    /\ htask = [k \in KbIds |-> 0]
    /\ job = [t \in 1..MaxTasks |-> NoJob]
    /\ uploads = <<>>
    /\ documents = <<>>
    /\ chunks = {}
    /\ vector = {}
    /\ blob = [p \in Paths |-> 0]
    /\ proc = [t \in 1..MaxDocTasks |-> NoProc]
    /\ delreq = NoDelete
    /\ upResp = [kind |-> "none"]
    /\ sync = NoSync
    /\ aged = 0
    /\ cleanup = NoCleanup
    /\ kbdel = NoKbDelete
    /\ call = [op |-> "none"]

(* ------ KnowledgeBaseService methods whose bodies are not in the ------- *)
(* ------ repository snapshot, taken from the specification        ------- *)
\* delete_kb_record_only: "the relational row is deleted synchronously"
delete_kb_record_only(rows, k) == [rows EXCEPT ![k] = FALSE]

\* cleanup_kb_resources: "blob-prefix and vector-collection removal",
\* applied to one store
cleanup_kb_resources(store, k) == [store EXCEPT ![k] = FALSE]

(* ------------- delete_knowledge_base (kb_router.py) -------------------- *)
\* get_kb_by_id succeeds, then create_task(kb_id): a pending row, no handle
DeleteKbCreateTask(k) ==
    /\ hpc[k] = "idle"
    /\ kbExists[k]
    /\ Len(tasks) < MaxTasks
    /\ tasks' = create_task(tasks, k, NULL, None)
    /\ htask' = [htask EXCEPT ![k] = Len(tasks) + 1]
    /\ hpc' = [hpc EXCEPT ![k] = "created"]
    /\ UNCHANGED <<kbExists, kbBlob, kbVec, job>>
    /\ UNCHANGED <<docVars, reqVars>>

\* delete_kb_record_only: the row is deleted and committed; the foreign key
\* of its tasks is set to NULL (ondelete="SET NULL")
DeleteKbRecord(k) ==
    /\ hpc[k] = "created"
    /\ kbExists' = delete_kb_record_only(kbExists, k)
    /\ tasks' = [i \in DOMAIN tasks |->
                    IF tasks[i].knowledge_base_id = k
                    THEN [tasks[i] EXCEPT !.knowledge_base_id = NULL]
                    ELSE tasks[i]]
    /\ hpc' = [hpc EXCEPT ![k] = "deleted"]
    /\ UNCHANGED <<kbBlob, kbVec, htask, job>>
    /\ UNCHANGED <<docVars, reqVars>>

\* variant: the job is enqueued before the row is deleted
DeleteKbEnqueue_BeforeRecord(k) ==
    /\ hpc[k] = "created"
    /\ job' = [job EXCEPT ![htask[k]] = [NoJob EXCEPT !.state = "queued",
                                                       !.kb_id = k]]
    /\ hpc' = [hpc EXCEPT ![k] = "enqueued"]
    /\ UNCHANGED <<tasks, kbExists, kbBlob, kbVec, htask>>
    /\ UNCHANGED <<docVars, reqVars>>

\* cleanup_kb_task.delay(kb_id, task_id): the message is in the queue
DeleteKbEnqueue(k) ==
    /\ hpc[k] = "deleted"
    /\ job' = [job EXCEPT ![htask[k]] = [NoJob EXCEPT !.state = "queued",
                                                       !.kb_id = k]]
    /\ hpc' = [hpc EXCEPT ![k] = "enqueued"]
    /\ UNCHANGED <<tasks, kbExists, kbBlob, kbVec, htask>>
    /\ UNCHANGED <<docVars, reqVars>>

\* .delay() raises (broker unreachable): the handler ends with an error
DeleteKbEnqueueFails(k) ==
    /\ hpc[k] = "deleted"
    /\ hpc' = [hpc EXCEPT ![k] = "error"]
    /\ UNCHANGED <<tasks, kbExists, kbBlob, kbVec, htask, job>>
    /\ UNCHANGED <<docVars, reqVars>>

\* variant: the handle is written before the message is submitted
DeleteKbAttachHandle_BeforeEnqueue(k) ==
    /\ hpc[k] = "deleted"
    /\ tasks' = update_status(tasks, htask[k], "pending", None, "celery-id")
    /\ hpc' = [hpc EXCEPT ![k] = "done"]
    /\ UNCHANGED <<kbExists, kbBlob, kbVec, htask, job>>
    /\ UNCHANGED <<docVars, reqVars>>

\* update_status(task_id=task.id, celery_task_id=celery_task.id): status is
\* left at its default argument "pending"
DeleteKbAttachHandle(k) ==
    /\ hpc[k] = "enqueued"
    /\ tasks' = update_status(tasks, htask[k], "pending", None, "celery-id")
    /\ hpc' = [hpc EXCEPT ![k] = "done"]
    /\ UNCHANGED <<kbExists, kbBlob, kbVec, htask, job>>
    /\ UNCHANGED <<docVars, reqVars>>

(* ------------------ cleanup_kb_task (kb_cleanup_task.py) --------------- *)
\* a worker takes the message: mark_processing(task_id)
KbCleanupStart(t) ==
    /\ job[t].state = "queued"
    /\ tasks' = mark_processing(tasks, t)
    /\ job' = [job EXCEPT ![t] = [@ EXCEPT !.state = "running",
                                          !.runs = @ + 1,
                                          !.last = "running",
                                          !.retried = FALSE]]
    /\ UNCHANGED <<kbExists, kbBlob, kbVec, hpc, htask>>
    /\ UNCHANGED <<docVars, reqVars>>

\* cleanup_kb_resources returns: blob prefix and collection are gone,
\* mark_completed, the job returns
KbCleanupSucceeds(t, k) ==
    /\ job[t].state = "running"
    /\ job[t].kb_id = k
    /\ kbBlob' = cleanup_kb_resources(kbBlob, k)
    /\ kbVec' = cleanup_kb_resources(kbVec, k)
    /\ tasks' = mark_completed(tasks, t)
    /\ job' = [job EXCEPT ![t] = [@ EXCEPT !.state = "done",
                                          !.closes = @ + 1,
                                          !.last = "completed"]]
    /\ UNCHANGED <<kbExists, hpc, htask>>
    /\ UNCHANGED <<docVars, reqVars>>

\* cleanup_kb_resources raises: mark_failed(str(e)), then self.retry with
\* countdown=delay; at the blob store nothing was removed, at the vector
\* index the blob prefix was already removed
KbCleanupFails(t, k, err) ==
    /\ job[t].state = "running"
    /\ job[t].kb_id = k
    /\ kbBlob' = [kbBlob EXCEPT ![k] = IF err = "vector_err" THEN FALSE ELSE @]
    /\ tasks' = mark_failed(tasks, t, err)
    /\ job' = [job EXCEPT ![t] =
                 IF RetryExceeded(@.retries)
                 THEN [@ EXCEPT !.state = "exhausted",
                                !.closes = @ + 1,
                                !.last = "work_raised",
                                !.retried = TRUE]
                 ELSE [@ EXCEPT !.state = "queued",
                                !.retries = @ + 1,
                                !.delays = Append(@, BackoffDelay(job[t].retries)),
                                !.closes = @ + 1,
                                !.last = "work_raised",
                                !.retried = TRUE]]
    /\ UNCHANGED <<kbExists, kbVec, hpc, htask>>
    /\ UNCHANGED <<docVars, reqVars>>

\* the session is made and mark_processing raises (the commit fails): this
\* is before the try, so neither the except branch nor the finally with
\* db.close() runs; autoretry_for=(Exception,) re-submits the job with the
\* default countdown
KbCleanupStartFails(t) ==
    /\ job[t].state = "queued"
    /\ job' = [job EXCEPT ![t] =
                 IF RetryExceeded(@.retries)
                 THEN [@ EXCEPT !.state = "exhausted",
                                !.runs = @ + 1,
                                !.last = "start_raised",
                                !.retried = TRUE]
                 ELSE [@ EXCEPT !.state = "queued",
                                !.runs = @ + 1,
                                !.retries = @ + 1,
                                !.delays = Append(@, default_retry_delay),
                                !.last = "start_raised",
                                !.retried = TRUE]]
    /\ UNCHANGED <<tasks, kbExists, kbBlob, kbVec, hpc, htask>>
    /\ UNCHANGED <<docVars, reqVars>>

\* cleanup_kb_resources returns and mark_completed raises: the except
\* branch marks the task failed and calls self.retry, the finally closes
KbCleanupCompleteFails(t, k) ==
    /\ job[t].state = "running"
    /\ job[t].kb_id = k
    /\ kbBlob' = cleanup_kb_resources(kbBlob, k)
    /\ kbVec' = cleanup_kb_resources(kbVec, k)
    /\ tasks' = mark_failed(tasks, t, "db_err")
    /\ job' = [job EXCEPT ![t] =
                 IF RetryExceeded(@.retries)
                 THEN [@ EXCEPT !.state = "exhausted",
                                !.closes = @ + 1,
                                !.last = "complete_raised",
                                !.retried = TRUE]
                 ELSE [@ EXCEPT !.state = "queued",
                                !.retries = @ + 1,
                                !.delays = Append(@, BackoffDelay(job[t].retries)),
                                !.closes = @ + 1,
                                !.last = "complete_raised",
                                !.retried = TRUE]]
    /\ UNCHANGED <<kbExists, hpc, htask>>
    /\ UNCHANGED <<docVars, reqVars>>

NextKb ==
    \/ \E k \in KbIds : DeleteKbCreateTask(k)
    \/ \E k \in KbIds : DeleteKbRecord(k)
    \/ \E k \in KbIds : DeleteKbEnqueue(k)
    \/ \E k \in KbIds : DeleteKbEnqueueFails(k)
    \/ \E k \in KbIds : DeleteKbAttachHandle(k)
    \/ \E t \in 1..MaxTasks : KbCleanupStart(t)
    \/ \E t \in 1..MaxTasks, k \in KbIds : KbCleanupSucceeds(t, k)
    \/ \E t \in 1..MaxTasks, k \in KbIds, err \in {"blob_err", "vector_err"} :
          KbCleanupFails(t, k, err)

SpecKb == Init /\ [][NextKb]_vars

\* scheduling: a request handler that has created its task goes on to its
\* next statement, and the Celery worker takes every message that is in
\* the queue and ends every run it has begun
FairKb ==
    /\ \A k \in KbIds :
          WF_vars(\/ DeleteKbRecord(k)
                  \/ DeleteKbEnqueue(k)
                  \/ DeleteKbEnqueueFails(k)
                  \/ DeleteKbAttachHandle(k))
    /\ \A t \in 1..MaxTasks :
          WF_vars(\/ KbCleanupStart(t)
                  \/ \E k \in KbIds : KbCleanupSucceeds(t, k)
                  \/ \E k \in KbIds, err \in {"blob_err", "vector_err"} :
                        KbCleanupFails(t, k, err))

SpecKbFair == Init /\ [][NextKb]_vars /\ FairKb

\* the same with the database failing inside the job as well
NextKbJob ==
    \/ NextKb
    \/ \E t \in 1..MaxTasks : KbCleanupStartFails(t)
    \/ \E t \in 1..MaxTasks, k \in KbIds : KbCleanupCompleteFails(t, k)

SpecKbJob == Init /\ [][NextKbJob]_vars


(* ------------- upload_documents (document_service.py) ------------------ *)
\* the Documents of the knowledge base with this (file_name, file_hash)
ExistingDocuments(name, content) ==
    {d \in DOMAIN documents :
        /\ documents[d].present
        /\ documents[d].file_name = name
        /\ documents[d].file_hash = FileHash(content)}

\* variant: the file is staged even though a matching Document exists
UploadWrites_NoDedup(name, content, putOk) ==
    /\ kbExists[DocKb]
    /\ Len(uploads) < MaxUploads
    /\ IF ~putOk
       THEN UNCHANGED <<uploads, blob>>
       ELSE /\ blob' = [blob EXCEPT ![TempPath(name)] = content]
            /\ uploads' = Append(uploads,
                             [present |-> TRUE, file_name |-> name,
                              file_hash |-> FileHash(content),
                              temp_path |-> TempPath(name),
                              status |-> "pending"])
    /\ UNCHANGED <<tasks, kbVars, documents, chunks, vector, proc, delreq, sync,
                   reqVars>>

\* variant: the DocumentUpload row is inserted although put_object raised
UploadWrites_RowOnFailure(name, content, putOk) ==
    /\ kbExists[DocKb]
    /\ Len(uploads) < MaxUploads
    /\ IF ExistingDocuments(name, content) # {}
       THEN UNCHANGED <<uploads, blob>>
       ELSE /\ blob' = IF putOk
                       THEN [blob EXCEPT ![TempPath(name)] = content]
                       ELSE blob
            /\ uploads' = Append(uploads,
                             [present |-> TRUE, file_name |-> name,
                              file_hash |-> FileHash(content),
                              temp_path |-> TempPath(name),
                              status |-> "pending"])
    /\ UNCHANGED <<tasks, kbVars, documents, chunks, vector, proc, delreq, sync,
                   reqVars>>

\* the writes of one file: an existing Document with the same (file_name,
\* file_hash) short-circuits ("exists") and a put_object that raises is
\* HTTP 500, both without any write; otherwise the blob is at the temp path
\* and a DocumentUpload row (status pending) is inserted
UploadWrites(name, content, putOk) ==
    /\ kbExists[DocKb]
    /\ Len(uploads) < MaxUploads
    /\ IF ExistingDocuments(name, content) # {} \/ ~putOk
       THEN UNCHANGED <<uploads, blob>>
       ELSE /\ blob' = [blob EXCEPT ![TempPath(name)] = content]
            /\ uploads' = Append(uploads,
                             [present |-> TRUE, file_name |-> name,
                              file_hash |-> FileHash(content),
                              temp_path |-> TempPath(name),
                              status |-> "pending"])
    /\ UNCHANGED <<tasks, kbVars, documents, chunks, vector, proc, delreq, sync,
                   reqVars>>

\* what the call returns for the file: the "exists" entry with the id of
\* the first matching Document, HTTP 500, or the entry of the new row
UploadResult(name, content, putOk) ==
    IF ExistingDocuments(name, content) # {}
    THEN [kind |-> "result", status |-> "exists",
          id |-> CHOOSE d \in ExistingDocuments(name, content) :
                    \A e \in ExistingDocuments(name, content) : d <= e,
          skip_processing |-> TRUE]
    ELSE IF ~putOk
    THEN [kind |-> "error", status_code |-> 500]
    ELSE [kind |-> "result", status |-> "pending",
          id |-> Len(uploads) + 1, skip_processing |-> FALSE]

\* upload_documents for one file
UploadDocuments(name, content, putOk) ==
    /\ UploadWrites(name, content, putOk)
    /\ upResp' = UploadResult(name, content, putOk)

(* ------ upload_documents: the read-back check of the staged blob ------- *)
max_attempts == 5
\* what one stat_object of the new blob gives: the expected size, another
\* size, or an exception
StatOutcomes == {"match", "mismatch", "error"}
StatRuns == [1..max_attempts -> StatOutcomes]

\* asyncio.sleep(0.05 * (attempt + 1)), in milliseconds
VerifyDelay(attempt) == 50 * (attempt + 1)

\* the loop "for attempt in range(max_attempts)" from the given attempt on:
\* a matching size ends it, anything else is logged and followed by a sleep
RECURSIVE VerifyFrom(_, _, _)
VerifyFrom(stats, attempt, sleeps) ==
    IF attempt = max_attempts
    THEN [checks |-> attempt, sleeps |-> sleeps, verified |-> FALSE]
    ELSE IF stats[attempt + 1] = "match"
    THEN [checks |-> attempt + 1, sleeps |-> sleeps, verified |-> TRUE]
    ELSE VerifyFrom(stats, attempt + 1,
                    Append(sleeps, VerifyDelay(attempt)))

\* variant: a blob that could not be verified is refused with HTTP 500
UploadVerify_Strict(name, content, stats) ==
    LET v == VerifyFrom(stats, 0, <<>>)
    IN
    /\ kbExists[DocKb]
    /\ Len(uploads) < MaxUploads
    /\ ExistingDocuments(name, content) = {}
    /\ blob' = [blob EXCEPT ![TempPath(name)] = content]
    /\ uploads' = IF v.verified
                  THEN Append(uploads,
                              [present |-> TRUE, file_name |-> name,
                               file_hash |-> FileHash(content),
                               temp_path |-> TempPath(name),
                               status |-> "pending"])
                  ELSE uploads
    /\ upResp' = IF v.verified
                  THEN UploadResult(name, content, TRUE)
                  ELSE [kind |-> "error", status_code |-> 500]
    /\ call' = [op |-> "upload_documents", upload_id |-> Len(uploads) + 1,
                verify |-> v]
    /\ UNCHANGED <<tasks, kbVars, documents, chunks, vector, proc, delreq,
                   sync, aged, cleanup, kbdel>>

\* upload_documents for one new file whose put_object succeeded: the
\* read-back loop runs, its result only goes to the log, the DocumentUpload
\* row is inserted and the pending entry returned
UploadVerify(name, content, stats) ==
    LET v == VerifyFrom(stats, 0, <<>>)
    IN
    /\ kbExists[DocKb]
    /\ Len(uploads) < MaxUploads
    /\ ExistingDocuments(name, content) = {}
    /\ blob' = [blob EXCEPT ![TempPath(name)] = content]
    /\ uploads' = Append(uploads,
                         [present |-> TRUE, file_name |-> name,
                          file_hash |-> FileHash(content),
                          temp_path |-> TempPath(name),
                          status |-> "pending"])
    /\ upResp' = UploadResult(name, content, TRUE)
    /\ call' = [op |-> "upload_documents", upload_id |-> Len(uploads) + 1,
                verify |-> v]
    /\ UNCHANGED <<tasks, kbVars, documents, chunks, vector, proc, delreq,
                   sync, aged, cleanup, kbdel>>

(* ------------- preview_documents (document_service.py) ----------------- *)
\* PreviewRequest.chunk_size and chunk_overlap are plain ints: every pair
\* passes the request schema
ChunkSizes == {0, 1, 2}
ChunkOverlaps == {-1, 0, 1, 2}

\* RecursiveCharacterTextSplitter(chunk_size, chunk_overlap) of the library:
\* every release raises ValueError for an overlap larger than the size;
\* the stricter releases also for a size <= 0 or an overlap < 0; an overlap
\* equal to the size is taken
SplitterRaises(chunk_size, chunk_overlap, strict) ==
    \/ chunk_overlap > chunk_size
    \/ strict /\ (chunk_size <= 0 \/ chunk_overlap < 0)

\* the id has a Document or a DocumentUpload row (else HTTP 404)
PreviewFound(id) ==
    \/ id \in DOMAIN documents /\ documents[id].present
    \/ id \in DOMAIN uploads /\ uploads[id].present

\* the path previewed for an id: the Document's file_path, else the
\* DocumentUpload's temp_path
PreviewPath(id) ==
    IF id \in DOMAIN documents /\ documents[id].present
    THEN documents[id].file_path
    ELSE uploads[id].temp_path

\* preview_documents for one id: the row is looked up, preview_document
\* downloads the blob and loads it, and only then builds the splitter with
\* the sizes of the request; whatever is raised on the way leaves the
\* handler as it is (HTTP 500)
PreviewDocuments(id, chunk_size, chunk_overlap, strict) ==
    LET fetched == PreviewFound(id) /\ blob[PreviewPath(id)] # 0
    IN  /\ kbExists[DocKb]
        /\ call' = [op |-> "preview_documents",
                    chunk_size |-> chunk_size,
                    chunk_overlap |-> chunk_overlap,
                    blob_read |-> fetched,
                    splitter_reached |-> fetched,
                    result |->
                      IF ~PreviewFound(id) THEN "not_found"
                      ELSE IF ~fetched THEN "server_error"
                      ELSE IF SplitterRaises(chunk_size, chunk_overlap,
                                             strict)
                      THEN "server_error"
                      ELSE "preview"]
        /\ UNCHANGED <<tasks, kbVars, docVars, aged, cleanup, kbdel>>

(* ------------- process_documents (document_service.py) ----------------- *)
\* one upload id that is in the table: create_task(kb_id, uid), then the
\* background run is scheduled with the upload's temp_path and file_name
SubmitProcessing(u) ==
    /\ kbExists[DocKb]
    /\ u \in DOMAIN uploads
    /\ uploads[u].present
    /\ Len(tasks) < MaxDocTasks
    /\ tasks' = create_task(tasks, DocKb, u, None)
    /\ proc' = [proc EXCEPT ![Len(tasks) + 1] =
                  [NoProc EXCEPT !.pc = "queued", !.upload = u,
                                 !.file_name = uploads[u].file_name]]
    /\ UNCHANGED <<kbVars, uploads, documents, chunks, vector, blob,
                   delreq>>
    /\ UNCHANGED <<upResp, sync, reqVars>>

\* the whole call for a list of upload results: entries marked
\* skip_processing are dropped, one task per remaining upload id that has a
\* row, a background run per task, and the list of tasks as the answer
ResultEntries ==
    {[status |-> "exists", id |-> d, skip_processing |-> TRUE] :
        d \in 1..MaxUploads}
    \cup {[status |-> "pending", id |-> u, skip_processing |-> FALSE] :
            u \in 1..MaxUploads}

UploadResultLists ==
    UNION {[1..n -> ResultEntries] : n \in 0..MaxUploads}

\* variant: every entry is taken
upload_ids_IgnoreSkip(upload_results) ==
    [i \in 1..Len(upload_results) |-> upload_results[i].id]

\* upload_ids = [r["upload_id"] for r in upload_results
\*               if not r.get("skip_processing")]
upload_ids(upload_results) ==
    LET kept == SelectSeq(upload_results, LAMBDA r : ~r.skip_processing)
    IN  [i \in 1..Len(kept) |-> kept[i].id]

\* the ids of upload_ids that are in uploads_dict
FoundUploads(ids) ==
    SelectSeq(ids, LAMBDA u : u \in DOMAIN uploads /\ uploads[u].present)

RECURSIVE create_tasks(_, _, _)
create_tasks(ts, kb, ids) ==
    IF ids = <<>> THEN ts
    ELSE create_tasks(create_task(ts, kb, Head(ids), None), kb, Tail(ids))

ProcessDocuments(upload_results) ==
    LET ids == upload_ids(upload_results)
        found == FoundUploads(ids)
    IN  /\ kbExists[DocKb]
        /\ Len(tasks) + Len(found) <= MaxDocTasks
        /\ IF ids = <<>>
           THEN /\ call' = [op |-> "process_documents",
                            upload_results |-> upload_results,
                            tasks |-> <<>>]
                /\ UNCHANGED <<tasks, proc>>
           ELSE /\ tasks' = create_tasks(tasks, DocKb, found)
                /\ proc' = [t \in DOMAIN proc |->
                              IF t \in (Len(tasks) + 1)..(Len(tasks) + Len(found))
                              THEN [NoProc EXCEPT
                                      !.pc = "queued",
                                      !.upload = found[t - Len(tasks)],
                                      !.file_name =
                                          uploads[found[t - Len(tasks)]].file_name]
                              ELSE proc[t]]
                /\ call' = [op |-> "process_documents",
                            upload_results |-> upload_results,
                            tasks |-> [i \in 1..Len(found) |->
                                         [upload_id |-> found[i],
                                          task_id |-> Len(tasks) + i]]]
        /\ UNCHANGED <<kbVars, uploads, documents, chunks, vector, blob,
                       delreq, upResp, sync, aged, cleanup, kbdel>>

\* a further knowledge base: its row exists throughout and nothing is
\* uploaded to it
EmptyKb == NumKb + 1

\* DocumentUpload.knowledge_base_id: every row is inserted by
\* upload_documents of the service of DocKb (knowledge_base_id=self.kb_id)
UploadKb(u) == DocKb

\* process_documents of the service of knowledge base kb: the rows are
\* looked up by DocumentUpload.id.in_(upload_ids) alone, and every task is
\* created with create_task(self.kb_id, uid)
ProcessDocumentsOf(kb, upload_results) ==
    LET ids == upload_ids(upload_results)
        found == FoundUploads(ids)
    IN  /\ kb = EmptyKb \/ (kb \in KbIds /\ kbExists[kb])
        /\ Len(tasks) + Len(found) <= MaxDocTasks
        /\ IF ids = <<>>
           THEN /\ call' = [op |-> "process_documents",
                            upload_results |-> upload_results,
                            tasks |-> <<>>]
                /\ UNCHANGED <<tasks, proc>>
           ELSE /\ tasks' = create_tasks(tasks, kb, found)
                /\ proc' = [t \in DOMAIN proc |->
                              IF t \in (Len(tasks) + 1)..(Len(tasks) + Len(found))
                              THEN [NoProc EXCEPT
                                      !.pc = "queued",
                                      !.upload = found[t - Len(tasks)],
                                      !.file_name =
                                          uploads[found[t - Len(tasks)]].file_name]
                              ELSE proc[t]]
                /\ call' = [op |-> "process_documents",
                            upload_results |-> upload_results,
                            tasks |-> [i \in 1..Len(found) |->
                                         [upload_id |-> found[i],
                                          task_id |-> Len(tasks) + i]]]
        /\ UNCHANGED <<kbVars, uploads, documents, chunks, vector, blob,
                       delreq, upResp, sync, aged, cleanup, kbdel>>

(* ------ process_document_background (document_processor.py) ------------ *)
\* the except branch: status failed with the error text, db.commit() (which
\* also flushes the chunk rows still pending in the session), then a
\* best-effort removal of the staged blob; when the commit itself raises
\* nothing is written and the exception leaves the function
ProcExcept(t, err, pending, blobNow, tempGone) ==
    IF FlushFails(pending, chunks, documents)
    THEN /\ UNCHANGED <<tasks, chunks>>
         /\ blob' = blobNow
    ELSE /\ tasks' = [tasks EXCEPT ![t] = [@ EXCEPT !.status = "failed",
                                                    !.error_message = err]]
         /\ chunks' = chunks \cup RowsOf(pending)
         /\ blob' = IF tempGone
                    THEN [blobNow EXCEPT ![TempPath(proc[t].file_name)] = 0]
                    ELSE blobNow

ProcEnds(t) == proc' = [proc EXCEPT ![t] = [@ EXCEPT !.pc = "done",
                                                      !.pending = <<>>]]

\* get_task finds the row: task.status = "processing", commit
ProcStart(t) ==
    /\ proc[t].pc = "queued"
    /\ tasks' = [tasks EXCEPT ![t] = [@ EXCEPT !.status = "processing"]]
    /\ proc' = [proc EXCEPT ![t] = [@ EXCEPT !.pc = "prepare"]]
    /\ UNCHANGED <<kbVars, uploads, documents, chunks, vector, blob,
                   delreq>>
    /\ UNCHANGED <<upResp, sync, reqVars>>

\* fget_object of the staged blob, load, split, vector store set up
ProcPrepare(t) ==
    /\ proc[t].pc = "prepare"
    /\ blob[TempPath(proc[t].file_name)] # 0
    /\ proc' = [proc EXCEPT ![t] =
                  [@ EXCEPT !.pc = "move",
                            !.content = blob[TempPath(proc[t].file_name)]]]
    /\ UNCHANGED <<tasks, kbVars, uploads, documents, chunks, vector, blob,
                   delreq>>
    /\ UNCHANGED <<upResp, sync, reqVars>>

\* the download (object missing or store error), the loader, the splitter
\* or the vector store set-up raises
ProcPrepareFails(t, tempGone) ==
    /\ proc[t].pc = "prepare"
    /\ ProcExcept(t, "prepare failed", <<>>, blob, tempGone)
    /\ ProcEnds(t)
    /\ UNCHANGED <<kbVars, uploads, documents, vector, delreq>>
    /\ UNCHANGED <<upResp, sync, reqVars>>

\* copy_object temp -> permanent, remove_object temp
ProcMove(t) ==
    /\ proc[t].pc = "move"
    /\ blob[TempPath(proc[t].file_name)] # 0
    /\ blob' = [blob EXCEPT
                  ![PermPath(proc[t].file_name)] = blob[TempPath(proc[t].file_name)],
                  ![TempPath(proc[t].file_name)] = 0]
    /\ proc' = [proc EXCEPT ![t] = [@ EXCEPT !.pc = "document"]]
    /\ UNCHANGED <<tasks, kbVars, uploads, documents, chunks, vector,
                   delreq>>
    /\ UNCHANGED <<upResp, sync, reqVars>>

\* copy_object raises (copied = FALSE), or remove_object raises after the
\* copy was made (copied = TRUE)
ProcMoveFails(t, copied, tempGone) ==
    /\ proc[t].pc = "move"
    /\ copied => blob[TempPath(proc[t].file_name)] # 0
    /\ ProcExcept(t, "move failed", <<>>,
                  IF copied
                  THEN [blob EXCEPT ![PermPath(proc[t].file_name)] =
                                       blob[TempPath(proc[t].file_name)]]
                  ELSE blob,
                  tempGone)
    /\ ProcEnds(t)
    /\ UNCHANGED <<kbVars, uploads, documents, vector, delreq>>
    /\ UNCHANGED <<upResp, sync, reqVars>>

\* Document(...) from task.document_upload, db.add, db.commit: needs the
\* upload row and no other Document with this file_name (uq_kb_file_name)
ProcCreateDocument(t) ==
    /\ proc[t].pc = "document"
    /\ tasks[t].document_upload_id # NULL
    /\ ~\E d \in DOMAIN documents :
          documents[d].present /\ documents[d].file_name = proc[t].file_name
    /\ documents' = Append(documents,
                       [present |-> TRUE, file_name |-> proc[t].file_name,
                        file_path |-> PermPath(proc[t].file_name),
                        file_hash |-> uploads[tasks[t].document_upload_id].file_hash])
    /\ proc' = [proc EXCEPT ![t] = [@ EXCEPT !.pc = "index",
                                              !.doc = Len(documents) + 1]]
    /\ UNCHANGED <<tasks, kbVars, uploads, chunks, vector, blob,
                   delreq>>
    /\ UNCHANGED <<upResp, sync, reqVars>>

\* task.document_upload is None, the insert violates uq_kb_file_name, or
\* the commit raises: no Document row
ProcCreateDocumentFails(t, tempGone) ==
    /\ proc[t].pc = "document"
    /\ ProcExcept(t, "document failed", <<>>, blob, tempGone)
    /\ ProcEnds(t)
    /\ UNCHANGED <<kbVars, uploads, documents, vector, delreq>>
    /\ UNCHANGED <<upResp, sync, reqVars>>

\* steps 6-7: every chunk row is added to the session (rows 0..i committed
\* at i % 100 == 0), then vector_store.add_documents(chunks) returns
ProcIndex(t) ==
    /\ proc[t].pc = "index"
    /\ LET rows == ChunkRows(DocKb, proc[t].file_name, proc[t].doc,
                             proc[t].content)
           early == EarlyCommitted(rows)
       IN  /\ chunks' = chunks \cup early
           /\ vector' = vector \cup VectorEntries(rows, NumBatches(rows))
           /\ proc' = [proc EXCEPT ![t] =
                         [@ EXCEPT !.pc = "finish",
                                   !.pending = SelectSeq(rows,
                                       LAMBDA r : r \notin early)]]
    /\ UNCHANGED <<tasks, kbVars, uploads, documents, blob, delreq>>
    /\ UNCHANGED <<upResp, sync, reqVars>>

\* vector_store.add_documents raises in batch nb + 1: the first nb batches
\* are in the index, the rows added to the session are still pending
ProcIndexFails(t, nb, tempGone) ==
    /\ proc[t].pc = "index"
    /\ LET rows == ChunkRows(DocKb, proc[t].file_name, proc[t].doc,
                             proc[t].content)
       IN  /\ nb < NumBatches(rows)
           /\ vector' = vector \cup VectorEntries(rows, nb)
           /\ ProcExcept(t, "index failed",
                         SelectSeq(rows, LAMBDA r : r \notin EarlyCommitted(rows)),
                         blob, tempGone)
    /\ ProcEnds(t)
    /\ UNCHANGED <<kbVars, uploads, documents, delreq>>
    /\ UNCHANGED <<upResp, sync, reqVars>>

\* variant: the task is completed without its links
ProcFinish_NoLink(t) ==
    /\ proc[t].pc = "finish"
    /\ ~FlushFails(proc[t].pending, chunks, documents)
    /\ tasks' = [tasks EXCEPT ![t] = [@ EXCEPT !.status = "completed"]]
    /\ chunks' = chunks \cup RowsOf(proc[t].pending)
    /\ ProcEnds(t)
    /\ UNCHANGED <<kbVars, uploads, documents, vector, blob, delreq>>
    /\ UNCHANGED <<upResp, sync, reqVars>>

\* steps 8-9: status completed, document_id, upload.status completed, commit
ProcFinish(t) ==
    /\ proc[t].pc = "finish"
    /\ ~FlushFails(proc[t].pending, chunks, documents)
    /\ tasks' = [tasks EXCEPT ![t] = [@ EXCEPT !.status = "completed",
                                               !.document_id = proc[t].doc]]
    /\ uploads' = IF tasks[t].document_upload_id # NULL
                  THEN [uploads EXCEPT ![tasks[t].document_upload_id] =
                          [@ EXCEPT !.status = "completed"]]
                  ELSE uploads
    /\ chunks' = chunks \cup RowsOf(proc[t].pending)
    /\ ProcEnds(t)
    /\ UNCHANGED <<kbVars, documents, vector, blob, delreq>>
    /\ UNCHANGED <<upResp, sync, reqVars>>

\* the final commit raises and is rolled back: the pending rows leave the
\* session, the except branch commits the failed status only
ProcFinishFails(t, tempGone) ==
    /\ proc[t].pc = "finish"
    /\ ProcExcept(t, "commit failed", <<>>, blob, tempGone)
    /\ ProcEnds(t)
    /\ UNCHANGED <<kbVars, uploads, documents, vector, delreq>>
    /\ UNCHANGED <<upResp, sync, reqVars>>

(* ------------- delete_document (document_service.py) ------------------- *)
\* the Document with this id, else the DocumentUpload with this id, else
\* 404; for a Document, the upload is one with the same file_hash
DelResolve(id, up) ==
    /\ delreq.pc \in {"idle", "done"}
    /\ LET doc == IF id \in DOMAIN documents /\ documents[id].present
                  THEN id ELSE NULL
           cands == IF doc # NULL
                    THEN {u \in DOMAIN uploads :
                            /\ uploads[u].present
                            /\ uploads[u].file_hash = documents[doc].file_hash}
                    ELSE {u \in DOMAIN uploads : u = id /\ uploads[u].present}
       IN  /\ IF cands = {} THEN up = NULL ELSE up \in cands
           /\ delreq' =
                IF doc = NULL /\ up = NULL
                THEN [NoDelete EXCEPT !.pc = "done",
                        !.resp = [kind |-> "error", status_code |-> 404]]
                ELSE [NoDelete EXCEPT !.pc = IF doc # NULL THEN "chroma"
                                             ELSE "minio",
                                      !.id = id, !.doc = doc, !.upload = up]
    /\ UNCHANGED <<tasks, kbVars, uploads, documents, chunks, vector, blob,
                   proc>>
    /\ UNCHANGED <<upResp, sync, reqVars>>

\* "Delete from Chroma (only for processed)": vector_store.delete by
\* document_id; an exception is logged and swallowed (the wrapper's
\* delete(ids) has no filter parameter, so the call may raise every time:
\* both outcomes are kept)
DelChroma(ok) ==
    /\ delreq.pc = "chroma"
    /\ vector' = IF ok THEN {v \in vector : v.document_id # delreq.id}
                 ELSE vector
    /\ delreq' = [delreq EXCEPT !.pc = "minio",
                                !.chroma_deleted = ok,
                                !.raised = IF ok THEN @ ELSE @ \cup {"chroma"}]
    /\ UNCHANGED <<tasks, kbVars, uploads, documents, chunks, blob, proc>>
    /\ UNCHANGED <<upResp, sync, reqVars>>

\* "Delete from MinIO": remove_object(doc.file_path or upload.temp_path);
\* an exception is logged and swallowed
DelMinio(ok) ==
    /\ delreq.pc = "minio"
    /\ LET path == IF delreq.doc # NULL
                   THEN documents[delreq.doc].file_path
                   ELSE uploads[delreq.upload].temp_path
       IN  blob' = IF ok THEN [blob EXCEPT ![path] = 0] ELSE blob
    /\ delreq' = [delreq EXCEPT !.pc = "db",
                                !.minio_deleted = ok,
                                !.raised = IF ok THEN @ ELSE @ \cup {"minio"}]
    /\ UNCHANGED <<tasks, kbVars, uploads, documents, chunks, vector, proc>>
    /\ UNCHANGED <<upResp, sync, reqVars>>

\* variant: the foreign keys of the tasks keep the ids of the deleted rows
DelDb_KeepsForeignKeys ==
    /\ delreq.pc = "db"
    /\ chunks' = {c \in chunks : c.document_id # delreq.doc}
    /\ documents' = IF delreq.doc # NULL
                    THEN [documents EXCEPT ![delreq.doc] =
                            [@ EXCEPT !.present = FALSE]]
                    ELSE documents
    /\ uploads' = IF delreq.upload # NULL
                  THEN [uploads EXCEPT ![delreq.upload] =
                          [@ EXCEPT !.present = FALSE]]
                  ELSE uploads
    /\ delreq' = [NoDelete EXCEPT
                    !.pc = "done",
                    !.resp = [kind |-> "success", success |-> TRUE,
                              deleted_from |-> IF delreq.doc # NULL
                                               THEN "documents"
                                               ELSE "document_uploads",
                              chroma_deleted |-> delreq.chroma_deleted,
                              minio_deleted |-> delreq.minio_deleted]]
    /\ UNCHANGED <<tasks, kbVars, vector, blob, proc>>
    /\ UNCHANGED <<upResp, sync, reqVars>>

\* "Database Cleanup" commits: chunk rows, document row and upload row are
\* deleted (task foreign keys SET NULL); the result carries the two flags
DelDb ==
    /\ delreq.pc = "db"
    /\ chunks' = {c \in chunks : c.document_id # delreq.doc}
    /\ documents' = IF delreq.doc # NULL
                    THEN [documents EXCEPT ![delreq.doc] =
                            [@ EXCEPT !.present = FALSE]]
                    ELSE documents
    /\ uploads' = IF delreq.upload # NULL
                  THEN [uploads EXCEPT ![delreq.upload] =
                          [@ EXCEPT !.present = FALSE]]
                  ELSE uploads
    /\ tasks' = [i \in DOMAIN tasks |->
                   [tasks[i] EXCEPT
                      !.document_id =
                          IF delreq.doc # NULL /\ @ = delreq.doc
                          THEN NULL ELSE @,
                      !.document_upload_id =
                          IF delreq.upload # NULL /\ @ = delreq.upload
                          THEN NULL ELSE @]]
    /\ delreq' = [NoDelete EXCEPT
                    !.pc = "done",
                    !.resp = [kind |-> "success", success |-> TRUE,
                              deleted_from |-> IF delreq.doc # NULL
                                               THEN "documents"
                                               ELSE "document_uploads",
                              chroma_deleted |-> delreq.chroma_deleted,
                              minio_deleted |-> delreq.minio_deleted]]
    /\ UNCHANGED <<kbVars, vector, blob, proc>>
    /\ UNCHANGED <<upResp, sync, reqVars>>

\* variant: the chunk delete is kept although the transaction failed
DelDbFails_NoRollback ==
    /\ delreq.pc = "db"
    /\ chunks' = {c \in chunks : c.document_id # delreq.doc}
    /\ delreq' = [NoDelete EXCEPT
                    !.pc = "done",
                    !.resp = [kind |-> "error", status_code |-> 500]]
    /\ UNCHANGED <<tasks, kbVars, uploads, documents, vector, blob, proc>>
    /\ UNCHANGED <<upResp, sync, reqVars>>

\* the deletes or the commit raise: db.rollback(), HTTP 500
DelDbFails ==
    /\ delreq.pc = "db"
    /\ delreq' = [NoDelete EXCEPT
                    !.pc = "done",
                    !.resp = [kind |-> "error", status_code |-> 500]]
    /\ UNCHANGED <<tasks, kbVars, uploads, documents, chunks, vector, blob,
                   proc>>
    /\ UNCHANGED <<upResp, sync, reqVars>>

(* ------------- cleanup_temp_files (document_service.py) ---------------- *)
\* time passes: the oldest row that was younger than 24 hours is now older
TimePasses ==
    /\ aged < Len(uploads)
    /\ aged' = aged + 1
    /\ UNCHANGED <<tasks, kbVars, docVars, cleanup, kbdel, call>>

\* the rows with created_at < utcnow() - 24 h, of every knowledge base
ExpiredUploads ==
    SelectSeq([i \in 1..Len(uploads) |-> i],
              LAMBDA u : u <= aged /\ uploads[u].present)

\* the query: expired_uploads is read once, before the loop
CleanupQuery ==
    /\ cleanup.pc \in {"idle", "done"}
    /\ cleanup' = [NoCleanup EXCEPT
                     !.pc = IF ExpiredUploads = <<>> THEN "commit"
                            ELSE "remove",
                     !.expired_uploads = ExpiredUploads,
                     !.todo = ExpiredUploads]
    /\ UNCHANGED <<tasks, kbVars, docVars, aged, kbdel, call>>

\* one turn of the loop: remove_object(upload.temp_path) returns, raises a
\* MinioException (logged, the loop goes on to db.delete(upload)) or raises
\* something else, which leaves the function: nothing was committed
CleanupRemove(outcome) ==
    /\ cleanup.pc = "remove"
    /\ LET u == Head(cleanup.todo)
       IN  /\ blob' = IF outcome = "removed"
                      THEN [blob EXCEPT ![uploads[u].temp_path] = 0]
                      ELSE blob
           /\ cleanup' =
                IF outcome = "other_exception"
                THEN [cleanup EXCEPT !.pc = "done", !.todo = <<>>,
                        !.resp = [kind |-> "error", status_code |-> 500]]
                ELSE [cleanup EXCEPT
                        !.pc = IF Tail(cleanup.todo) = <<>> THEN "commit"
                               ELSE "remove",
                        !.todo = Tail(cleanup.todo)]
    /\ UNCHANGED <<tasks, kbVars, uploads, documents, chunks, vector, proc,
                   delreq, upResp, sync, aged, kbdel, call>>

\* db.commit(): the rows of expired_uploads are deleted (task foreign keys
\* SET NULL) and the message counts them
CleanupCommit ==
    /\ cleanup.pc = "commit"
    /\ LET gone == RowsOf(cleanup.expired_uploads)
       IN  /\ uploads' = [u \in DOMAIN uploads |->
                            IF u \in gone
                            THEN [uploads[u] EXCEPT !.present = FALSE]
                            ELSE uploads[u]]
           /\ tasks' = [i \in DOMAIN tasks |->
                          [tasks[i] EXCEPT !.document_upload_id =
                              IF @ \in gone THEN NULL ELSE @]]
    /\ cleanup' = [cleanup EXCEPT
                     !.pc = "done",
                     !.resp = [kind |-> "success",
                               cleaned |-> Len(cleanup.expired_uploads)]]
    /\ UNCHANGED <<kbVars, documents, chunks, vector, blob, proc, delreq,
                   upResp, sync, aged, kbdel, call>>

\* db.commit() raises: the exception leaves the function, no row is deleted
CleanupCommitFails ==
    /\ cleanup.pc = "commit"
    /\ cleanup' = [cleanup EXCEPT
                     !.pc = "done",
                     !.resp = [kind |-> "error", status_code |-> 500]]
    /\ UNCHANGED <<tasks, kbVars, docVars, aged, kbdel, call>>

(* ------------- delete_kb (kb_service.py) ------------------------------- *)
\* the lookup: 404 when the knowledge base has no row
KbSvcLookup(k) ==
    /\ kbdel.pc \in {"idle", "done"}
    /\ kbdel' = IF kbExists[k]
                THEN [NoKbDelete EXCEPT !.pc = "minio", !.kb = k]
                ELSE [NoKbDelete EXCEPT
                        !.pc = "done",
                        !.resp = [kind |-> "error", status_code |-> 404]]
    /\ UNCHANGED <<tasks, kbVars, docVars, aged, cleanup, call>>

\* variant: a MinioException ends the call like any other exception
KbSvcMinio_Fatal(outcome) ==
    /\ kbdel.pc = "minio"
    /\ kbBlob' = IF outcome = "removed"
                 THEN [kbBlob EXCEPT ![kbdel.kb] = FALSE]
                 ELSE kbBlob
    /\ blob' = IF outcome = "removed" /\ kbdel.kb = DocKb
               THEN [p \in Paths |-> 0]
               ELSE blob
    /\ kbdel' =
         CASE outcome = "removed" -> [kbdel EXCEPT !.pc = "vector"]
           [] OTHER ->
                [kbdel EXCEPT
                   !.pc = "done",
                   !.resp = [kind |-> "error", status_code |-> 500,
                             detail |-> "Failed to delete knowledge base"]]
    /\ UNCHANGED <<tasks, kbExists, kbVec, hpc, htask, job, uploads,
                   documents, chunks, vector, proc, delreq, upResp, sync,
                   aged, cleanup, call>>

\* "1. MinIO cleanup": every object under kb_<id>/ is removed; a
\* MinioException becomes a cleanup error, any other exception reaches the
\* outer except: rollback and HTTP 500
KbSvcMinio(outcome) ==
    /\ kbdel.pc = "minio"
    /\ kbBlob' = IF outcome = "removed"
                 THEN [kbBlob EXCEPT ![kbdel.kb] = FALSE]
                 ELSE kbBlob
    /\ blob' = IF outcome = "removed" /\ kbdel.kb = DocKb
               THEN [p \in Paths |-> 0]
               ELSE blob
    /\ kbdel' =
         CASE outcome = "removed" -> [kbdel EXCEPT !.pc = "vector"]
           [] outcome = "minio_exception" ->
                [kbdel EXCEPT !.pc = "vector",
                              !.cleanup_errors =
                                  Append(@, "MinIO cleanup failed")]
           [] OTHER ->
                [kbdel EXCEPT
                   !.pc = "done",
                   !.resp = [kind |-> "error", status_code |-> 500,
                             detail |-> "Failed to delete knowledge base"]]
    /\ UNCHANGED <<tasks, kbExists, kbVec, hpc, htask, job, uploads,
                   documents, chunks, vector, proc, delreq, upResp, sync,
                   aged, cleanup, call>>

\* "2. Vector store cleanup": delete_collection; any exception becomes a
\* cleanup error
KbSvcVector(ok) ==
    /\ kbdel.pc = "vector"
    /\ kbVec' = IF ok THEN [kbVec EXCEPT ![kbdel.kb] = FALSE] ELSE kbVec
    /\ vector' = IF ok /\ kbdel.kb = DocKb THEN {} ELSE vector
    /\ kbdel' = [kbdel EXCEPT
                   !.pc = "db",
                   !.cleanup_errors =
                       IF ok THEN @
                       ELSE Append(@, "Vector store cleanup failed")]
    /\ UNCHANGED <<tasks, kbExists, kbBlob, hpc, htask, job, uploads,
                   documents, chunks, blob, proc, delreq, upResp, sync,
                   aged, cleanup, call>>

\* "3. Database cleanup": db.delete(kb) and commit; documents, uploads and
\* chunk rows go with it (cascade="all, delete-orphan"), the foreign keys
\* of the tasks are SET NULL; the answer carries the warnings, if any
KbSvcCommit ==
    /\ kbdel.pc = "db"
    /\ kbExists' = [kbExists EXCEPT ![kbdel.kb] = FALSE]
    /\ documents' = IF kbdel.kb = DocKb
                    THEN [d \in DOMAIN documents |->
                            [documents[d] EXCEPT !.present = FALSE]]
                    ELSE documents
    /\ uploads' = IF kbdel.kb = DocKb
                  THEN [u \in DOMAIN uploads |->
                          [uploads[u] EXCEPT !.present = FALSE]]
                  ELSE uploads
    /\ chunks' = IF kbdel.kb = DocKb THEN {} ELSE chunks
    /\ tasks' = [i \in DOMAIN tasks |->
                   IF tasks[i].knowledge_base_id = kbdel.kb
                   THEN [tasks[i] EXCEPT
                           !.knowledge_base_id = NULL,
                           !.document_id =
                               IF kbdel.kb = DocKb THEN NULL ELSE @,
                           !.document_upload_id =
                               IF kbdel.kb = DocKb THEN NULL ELSE @]
                   ELSE tasks[i]]
    /\ kbdel' = [kbdel EXCEPT
                   !.pc = "done",
                   !.resp = IF kbdel.cleanup_errors # <<>>
                            THEN [kind |-> "success",
                                  message |-> "KB deleted with warnings",
                                  warnings |-> kbdel.cleanup_errors]
                            ELSE [kind |-> "success",
                                  message |-> "KB and all associated resources deleted successfully"]]
    /\ UNCHANGED <<kbBlob, kbVec, hpc, htask, job, vector, blob, proc,
                   delreq, upResp, sync, aged, cleanup, call>>

\* variant: the failed commit leaves the row deleted
KbSvcCommitFails_NoRollback ==
    /\ kbdel.pc = "db"
    /\ kbExists' = [kbExists EXCEPT ![kbdel.kb] = FALSE]
    /\ kbdel' = [kbdel EXCEPT
                   !.pc = "done",
                   !.resp = [kind |-> "error", status_code |-> 500,
                             detail |-> "Failed to delete knowledge base"]]
    /\ UNCHANGED <<tasks, kbBlob, kbVec, hpc, htask, job, docVars, aged,
                   cleanup, call>>

\* db.delete(kb) or the commit raises: rollback, HTTP 500
KbSvcCommitFails ==
    /\ kbdel.pc = "db"
    /\ kbdel' = [kbdel EXCEPT
                   !.pc = "done",
                   !.resp = [kind |-> "error", status_code |-> 500,
                             detail |-> "Failed to delete knowledge base"]]
    /\ UNCHANGED <<tasks, kbVars, docVars, aged, cleanup, call>>

(* ------------- cleanup_doc_task (doc_cleanup_task.py) ------------------ *)
\* no document cleanup job is between its first and its last step
DocJobIdle ==
    call.op = "cleanup_doc_task" => call.pc \in {"returned", "aborted"}

\* the job is taken with its payload: mark_processing(task_id)
DocCleanupStart(t, path, doc, is_processed) ==
    /\ DocJobIdle
    /\ t \in DOMAIN tasks
    /\ tasks' = mark_processing(tasks, t)
    /\ call' = [op |-> "cleanup_doc_task", task_id |-> t,
                file_path |-> path, document_id |-> doc,
                is_processed |-> is_processed,
                pc |-> IF is_processed THEN "chroma" ELSE "minio",
                error |-> {}, minio_deleted |-> FALSE,
                chroma_deleted |-> FALSE]
    /\ UNCHANGED <<kbVars, docVars, aged, cleanup, kbdel>>

\* "Delete from Chroma if processed": an exception is noted in error
DocCleanupChroma(ok) ==
    /\ call.op = "cleanup_doc_task"
    /\ call.pc = "chroma"
    /\ vector' = IF ok THEN {v \in vector : v.document_id # call.document_id}
                 ELSE vector
    /\ call' = [call EXCEPT !.pc = "minio",
                            !.chroma_deleted = ok,
                            !.error = IF ok THEN @ ELSE @ \cup {"chroma"}]
    /\ UNCHANGED <<tasks, kbVars, uploads, documents, chunks, blob, proc,
                   delreq, upResp, sync, aged, cleanup, kbdel>>

\* "Delete from MinIO": an exception is noted in error
DocCleanupMinio(ok) ==
    /\ call.op = "cleanup_doc_task"
    /\ call.pc = "minio"
    /\ blob' = IF ok THEN [blob EXCEPT ![call.file_path] = 0] ELSE blob
    /\ call' = [call EXCEPT !.pc = "mark",
                            !.minio_deleted = ok,
                            !.error = IF ok THEN @ ELSE @ \cup {"minio"}]
    /\ UNCHANGED <<tasks, kbVars, uploads, documents, chunks, vector, proc,
                   delreq, upResp, sync, aged, cleanup, kbdel>>

\* "if not error": mark_completed and the result is returned; otherwise
\* mark_failed(task_id=..., error_details=...) is called, a keyword that
\* mark_failed(task_id, error_message) does not have: TypeError, the job
\* aborts before any write
DocCleanupMark ==
    /\ call.op = "cleanup_doc_task"
    /\ call.pc = "mark"
    /\ IF call.error = {}
       THEN /\ tasks' = mark_completed(tasks, call.task_id)
            /\ call' = [call EXCEPT !.pc = "returned"]
       ELSE /\ UNCHANGED tasks
            /\ call' = [call EXCEPT !.pc = "aborted"]
    /\ UNCHANGED <<kbVars, docVars, aged, cleanup, kbdel>>

(* ------------- calls of generate_chunk_id ------------------------------ *)
ChunkTexts == 1..(NumContents + 2)
ChunkMetas == {RawMeta} \cup {AugMeta(d) : d \in 1..SmallUploads}
NoChunkIdCall == [args |-> <<>>, result |-> <<>>]

\* one call; the call before it is kept for comparison
GenerateChunkIdCall(kb, name, text, meta) ==
    /\ call' = [op |-> "generate_chunk_id",
                prev |-> IF call.op = "generate_chunk_id"
                         THEN call.last ELSE NoChunkIdCall,
                last |-> [args |-> <<kb, name, text, meta>>,
                          result |-> generate_chunk_id(kb, name, text,
                                                        meta)]]
    /\ UNCHANGED <<tasks, kbVars, docVars, aged, cleanup, kbdel>>

(* ------------- calls of ProcessingTaskService -------------------------- *)
TaskStatuses == {"pending", "processing", "completed", "failed"}
ErrorTexts == {None, "boom"}
Handles == {None, "celery-id"}
AnyTaskIds == 1..(SmallTasks + 1)       \* ids with and without a row

CreateTaskCall(kb) ==
    /\ Len(tasks) < MaxDocTasks
    /\ tasks' = create_task(tasks, kb, NULL, None)
    /\ call' = [op |-> "create_task", task_id |-> Len(tasks) + 1,
                returned |-> Len(tasks) + 1, raised |-> FALSE]
    /\ UNCHANGED <<kbVars, docVars, aged, cleanup, kbdel>>

UpdateStatusCall(id, status, err, celery) ==
    /\ tasks' = update_status(tasks, id, status, err, celery)
    /\ call' = [op |-> "update_status", task_id |-> id,
                returned |-> update_status_returns(tasks, id),
                raised |-> FALSE]
    /\ UNCHANGED <<kbVars, docVars, aged, cleanup, kbdel>>

MarkProcessingCall(id) ==
    /\ tasks' = mark_processing(tasks, id)
    /\ call' = [op |-> "mark_processing", task_id |-> id,
                returned |-> update_status_returns(tasks, id),
                raised |-> FALSE]
    /\ UNCHANGED <<kbVars, docVars, aged, cleanup, kbdel>>

MarkCompletedCall(id) ==
    /\ tasks' = mark_completed(tasks, id)
    /\ call' = [op |-> "mark_completed", task_id |-> id,
                returned |-> update_status_returns(tasks, id),
                raised |-> FALSE]
    /\ UNCHANGED <<kbVars, docVars, aged, cleanup, kbdel>>

MarkFailedCall(id, err) ==
    /\ tasks' = mark_failed(tasks, id, err)
    /\ call' = [op |-> "mark_failed", task_id |-> id,
                returned |-> update_status_returns(tasks, id),
                raised |-> FALSE]
    /\ UNCHANGED <<kbVars, docVars, aged, cleanup, kbdel>>

\* process_document_background for a task id without a row: get_task
\* returns None, the error is logged and the function returns
ProcMissingTask(t) ==
    /\ t \notin DOMAIN tasks
    /\ call' = [op |-> "process_document_background", task_id |-> t,
                returned |-> None, raised |-> FALSE]
    /\ UNCHANGED <<tasks, kbVars, docVars, aged, cleanup, kbdel>>

(* ---- ChunkRecord (app/services/chunk_record.py is not in the ---------- *)
(* ---- repository snapshot; behaviour as its tests exercise it)  ---------- *)
\* list_chunks(file_name): the hashes recorded for the file
list_chunks(cs, name) == {r.hash : r \in {x \in cs : x.file_name = name}}

\* add_chunks(chunks): the rows are inserted and committed
add_chunks(cs, rows) == cs \cup RowsOf(rows)

\* get_deleted_chunks(current_hashes, file_name): the ids recorded for the
\* file whose hash is not a current hash
get_deleted_chunks(cs, current_hashes, name) ==
    {r.id : r \in {x \in cs : x.file_name = name /\ x.hash \notin current_hashes}}

\* delete_chunks(ids): the rows with these ids are deleted and committed
delete_chunks(cs, ids) == {r \in cs : r.id \notin ids}

(* ------------- process_document (document_processor.py) ---------------- *)
\* one row per chunk of the preview, in order: generate_chunk_id on the
\* chunk's content and metadata gives the row's hash and id
CandidateRows(kb, name, doc, content) ==
    [i \in 1..Len(Split(content)) |->
        [id |-> generate_chunk_id(kb, name, Split(content)[i], RawMeta)[2],
         document_id |-> doc,
         file_name |-> name,
         hash |-> generate_chunk_id(kb, name, Split(content)[i], RawMeta)[1]]]

\* current_hashes: every candidate's hash
CurrentHashes(kb, name, doc, content) ==
    {CandidateRows(kb, name, doc, content)[i].hash :
        i \in 1..Len(Split(content))}

\* variant: every candidate is taken as new
NewChunks_All(kb, name, doc, content, existing_hashes) ==
    CandidateRows(kb, name, doc, content)

\* new_chunks: the candidates whose hash is not in existing_hashes
NewChunks(kb, name, doc, content, existing_hashes) ==
    SelectSeq(CandidateRows(kb, name, doc, content),
              LAMBDA r : r.hash \notin existing_hashes)

\* the pass starts: preview, existing_hashes = list_chunks(file_name), the
\* loop over the chunks builds new_chunks
SyncStart(name, doc, content) ==
    /\ sync.pc = "idle"
    /\ doc \in DOMAIN documents
    /\ documents[doc].present
    /\ documents[doc].file_name = name
    /\ sync' = [NoSync EXCEPT
                  !.pc = IF NewChunks(DocKb, name, doc, content,
                                      list_chunks(chunks, name)) = <<>>
                         THEN "delete" ELSE "add",
                  !.file_name = name, !.doc = doc, !.content = content,
                  !.new_chunks = NewChunks(DocKb, name, doc, content,
                                           list_chunks(chunks, name))]
    /\ UNCHANGED <<tasks, kbVars, uploads, documents, chunks, vector, blob,
                   proc, delreq, upResp, reqVars>>

\* variant: the rows are recorded and the pass goes on to the deletions
\* without the vector add
SyncAdd_LedgerOnly(vecOk) ==
    /\ sync.pc = "add"
    /\ IF FlushFails(sync.new_chunks, chunks, documents)
       THEN /\ UNCHANGED chunks
            /\ sync' = NoSync
       ELSE /\ chunks' = add_chunks(chunks, sync.new_chunks)
            /\ sync' = [sync EXCEPT !.pc = "delete"]
    /\ UNCHANGED <<tasks, kbVars, uploads, documents, vector, blob, proc,
                   delreq, upResp, reqVars>>

\* "if new_chunks": chunk_manager.add_chunks(new_chunks), then
\* vector_store.add_documents(documents_to_update); an insert that cannot
\* be flushed raises before any write, a vector add that raises leaves the
\* rows committed; either exception ends the pass (it is re-raised to the
\* caller)
SyncAdd(vecOk) ==
    /\ sync.pc = "add"
    /\ IF FlushFails(sync.new_chunks, chunks, documents)
       THEN /\ UNCHANGED <<chunks, vector>>
            /\ sync' = NoSync
       ELSE /\ chunks' = add_chunks(chunks, sync.new_chunks)
            /\ IF vecOk
               THEN /\ vector' = vector \cup
                          VectorEntries(sync.new_chunks,
                                        NumBatches(sync.new_chunks))
                    /\ sync' = [sync EXCEPT !.pc = "delete"]
               ELSE /\ UNCHANGED vector
                    /\ sync' = NoSync
    /\ UNCHANGED <<tasks, kbVars, uploads, documents, blob, proc, delreq,
                   upResp, reqVars>>

\* chunks_to_delete = get_deleted_chunks(current_hashes, file_name); "if
\* chunks_to_delete": chunk_manager.delete_chunks, then vector_store.delete;
\* a vector delete that raises leaves the rows deleted; the pass ends
SyncDelete(vecOk) ==
    /\ sync.pc = "delete"
    /\ LET ids == get_deleted_chunks(chunks,
                       CurrentHashes(DocKb, sync.file_name, sync.doc,
                                     sync.content),
                       sync.file_name)
       IN  /\ chunks' = delete_chunks(chunks, ids)
           /\ vector' = IF vecOk THEN {v \in vector : v.chunk_id \notin ids}
                                 ELSE vector
           /\ sync' = NoSync
    /\ UNCHANGED <<tasks, kbVars, uploads, documents, blob, proc, delreq,
                   upResp, reqVars>>

DocTaskIds == 1..MaxDocTasks
RowIds == 1..MaxUploads

NextSubmit ==
    \/ \E n \in Names, c \in Contents, ok \in BOOLEAN : UploadDocuments(n, c, ok)
    \/ \E u \in RowIds : SubmitProcessing(u)

\* one step of the background run of task t
WorkerStep(t) ==
    \/ ProcStart(t)
    \/ ProcPrepare(t)
    \/ \E g \in BOOLEAN : ProcPrepareFails(t, g)
    \/ ProcMove(t)
    \/ \E cp \in BOOLEAN, g \in BOOLEAN : ProcMoveFails(t, cp, g)
    \/ ProcCreateDocument(t)
    \/ \E g \in BOOLEAN : ProcCreateDocumentFails(t, g)
    \/ ProcIndex(t)
    \/ \E g \in BOOLEAN : ProcIndexFails(t, 0, g)
    \/ ProcFinish(t)
    \/ \E g \in BOOLEAN : ProcFinishFails(t, g)

NextWorker == \E t \in DocTaskIds : WorkerStep(t)

\* no other background run is between its first and its last step
OnlyRun(t) ==
    \A o \in DocTaskIds \ {t} : proc[o].pc \in {"none", "queued", "done"}

NextProc == NextSubmit \/ NextWorker

NextDelete ==
    \/ \E id \in RowIds, up \in RowIds \cup {NULL} : DelResolve(id, up)
    \/ \E ok \in BOOLEAN : DelChroma(ok)
    \/ \E ok \in BOOLEAN : DelMinio(ok)
    \/ DelDb
    \/ DelDbFails

\* the document world with deletions, for at most SmallUploads upload rows
\* and SmallTasks processing tasks; the result of an upload call is not
\* observed here
NextDel ==
    \/ \E n \in Names, c \in Contents, ok \in BOOLEAN :
          /\ Len(uploads) < SmallUploads
          /\ UploadWrites(n, c, ok)
          /\ UNCHANGED upResp
    \/ \E u \in RowIds :
          /\ Len(tasks) < SmallTasks
          /\ SubmitProcessing(u)
    \/ NextWorker
    \/ NextDelete

\* uploads and their results, with at most SmallTasks processing tasks
NextUp ==
    \/ \E n \in Names, c \in Contents, ok \in BOOLEAN : UploadDocuments(n, c, ok)
    \/ \E u \in RowIds :
          /\ Len(tasks) < SmallTasks
          /\ SubmitProcessing(u)
    \/ NextWorker

\* no processing run is between its first and its last step
Quiescent == \A t \in DocTaskIds : proc[t].pc \in {"none", "queued", "done"}

\* synchronization passes over the documents of the small world; nothing in
\* the repository schedules process_document, here a pass runs between the
\* processing runs
NextSync ==
    \/ \E n \in Names, c \in Contents, ok \in BOOLEAN :
          /\ Len(uploads) < SmallUploads
          /\ UploadWrites(n, c, ok)
          /\ UNCHANGED upResp
    \/ \E u \in RowIds :
          /\ Len(tasks) < SmallTasks
          /\ SubmitProcessing(u)
    \/ sync.pc = "idle" /\ NextWorker
    \/ \E n \in Names, d \in RowIds, c \in Contents :
          Quiescent /\ SyncStart(n, d, c)
    \/ \E ok \in BOOLEAN : SyncAdd(ok)
    \/ \E ok \in BOOLEAN : SyncDelete(ok)

\* staging, one processing task, the passing of time and cleanup_temp_files
NextExp ==
    \/ \E n \in Names, c \in Contents, ok \in BOOLEAN :
          /\ UploadWrites(n, c, ok)
          /\ UNCHANGED upResp
    \/ \E u \in RowIds :
          /\ Len(tasks) < SmallTasks
          /\ SubmitProcessing(u)
    \/ NextWorker
    \/ TimePasses
    \/ CleanupQuery
    \/ \E o \in {"removed", "minio_exception", "other_exception"} :
          CleanupRemove(o)
    \/ CleanupCommit
    \/ CleanupCommitFails

SpecExp == Init /\ [][NextExp]_vars
\* no request of the three handlers is in progress or unanswered
HandlersIdle ==
    /\ delreq = NoDelete
    /\ cleanup = NoCleanup
    /\ kbdel = NoKbDelete

\* the answer of a finished request has been sent: its locals are gone
Returned ==
    /\ \/ delreq.pc = "done"
       \/ cleanup.pc = "done"
       \/ kbdel.pc = "done"
    /\ delreq' = NoDelete
    /\ cleanup' = NoCleanup
    /\ kbdel' = NoKbDelete
    /\ UNCHANGED <<tasks, kbVars, uploads, documents, chunks, vector, blob,
                   proc, upResp, sync, aged, call>>

\* the three deletions of rows that tasks refer to (delete_document,
\* cleanup_temp_files, delete_kb), run one request at a time between
\* background runs, while the blob store, the vector index and the
\* relational store answer these requests
NextRows ==
    \/ \E n \in Names, c \in Contents, ok \in BOOLEAN :
          /\ HandlersIdle
          /\ Len(uploads) < SmallUploads
          /\ UploadWrites(n, c, ok)
          /\ UNCHANGED upResp
    \/ \E u \in RowIds :
          /\ HandlersIdle
          /\ Len(tasks) < SmallTasks
          /\ SubmitProcessing(u)
    \/ \E t \in DocTaskIds : HandlersIdle /\ OnlyRun(t) /\ WorkerStep(t)
    \/ HandlersIdle /\ Quiescent /\ TimePasses
    \/ \E id \in RowIds, up \in RowIds \cup {NULL} :
          HandlersIdle /\ Quiescent /\ DelResolve(id, up)
    \/ DelChroma(TRUE)
    \/ DelMinio(TRUE)
    \/ DelDb
    \/ HandlersIdle /\ Quiescent /\ CleanupQuery
    \/ CleanupRemove("removed")
    \/ CleanupCommit
    \/ \E k \in KbIds : HandlersIdle /\ Quiescent /\ KbSvcLookup(k)
    \/ KbSvcMinio("removed")
    \/ KbSvcVector(TRUE)
    \/ KbSvcCommit
    \/ Returned

SpecRows == Init /\ [][NextRows]_vars
\* the task service called with ids that have a row and ids that have none
NextTask ==
    \/ \E k \in KbIds :
          /\ Len(tasks) < SmallTasks
          /\ CreateTaskCall(k)
    \/ \E id \in AnyTaskIds, st \in TaskStatuses, e \in ErrorTexts,
          h \in Handles : UpdateStatusCall(id, st, e, h)
    \/ \E id \in AnyTaskIds : MarkProcessingCall(id)
    \/ \E id \in AnyTaskIds : MarkCompletedCall(id)
    \/ \E id \in AnyTaskIds, e \in ErrorTexts : MarkFailedCall(id, e)
    \/ \E t \in AnyTaskIds : ProcMissingTask(t)

SpecTask == Init /\ [][NextTask]_vars
\* uploads of the small world and processing submissions with any list of
\* upload results; the background runs stay queued
NextSub ==
    \/ \E n \in Names, c \in Contents, ok \in BOOLEAN :
          /\ Len(uploads) < SmallUploads
          /\ UploadDocuments(n, c, ok)
    \/ \E rs \in UploadResultLists :
          /\ Len(tasks) + Len(FoundUploads(upload_ids(rs))) <= SmallTasks
          /\ ProcessDocuments(rs)

SpecSub == Init /\ [][NextSub]_vars

\* uploads to DocKb and processing submissions addressed to DocKb or to
\* the further knowledge base; the background runs stay queued
NextSubKb ==
    \/ \E n \in Names, c \in Contents, ok \in BOOLEAN :
          /\ Len(uploads) < SmallUploads
          /\ UploadDocuments(n, c, ok)
    \/ \E kb \in KbIds \cup {EmptyKb}, rs \in UploadResultLists :
          /\ Len(tasks) + Len(FoundUploads(upload_ids(rs))) <= SmallTasks
          /\ ProcessDocumentsOf(kb, rs)

SpecSubKb == Init /\ [][NextSubKb]_vars

\* delete_kb of the service with every outcome of the blob store, the vector
\* store and the database, one request at a time between the uploads and
\* processing submissions of the small world; the background runs stay
\* queued
NextKbSvc ==
    \/ \E n \in Names, c \in Contents, ok \in BOOLEAN :
          /\ HandlersIdle
          /\ Len(uploads) < SmallUploads
          /\ UploadWrites(n, c, ok)
          /\ UNCHANGED upResp
    \/ \E u \in RowIds :
          /\ HandlersIdle
          /\ Len(tasks) < SmallTasks
          /\ SubmitProcessing(u)
    \/ \E k \in KbIds : HandlersIdle /\ KbSvcLookup(k)
    \/ \E o \in {"removed", "minio_exception", "other_exception"} :
          KbSvcMinio(o)
    \/ \E ok \in BOOLEAN : KbSvcVector(ok)
    \/ KbSvcCommit
    \/ KbSvcCommitFails
    \/ Returned

SpecKbSvc == Init /\ [][NextKbSvc]_vars
\* uploads with every run of the read-back check, uploads that are answered
\* without staging, and the processing of the small world
NextVerify ==
    \/ \E n \in Names, c \in Contents, st \in StatRuns :
          /\ Len(uploads) < SmallUploads
          /\ UploadVerify(n, c, st)
    \/ \E n \in Names, c \in Contents : UploadDocuments(n, c, FALSE)
    \/ \E u \in RowIds :
          /\ Len(tasks) < SmallTasks
          /\ SubmitProcessing(u)
    \/ NextWorker

SpecVerify == Init /\ [][NextVerify]_vars
\* previews with any sizes of uploads and documents of the small world
NextPreview ==
    \/ \E n \in Names, c \in Contents, ok \in BOOLEAN :
          /\ Len(uploads) < SmallUploads
          /\ UploadDocuments(n, c, ok)
    \/ \E u \in RowIds :
          /\ Len(tasks) < SmallTasks
          /\ SubmitProcessing(u)
    \/ NextWorker
    \/ \E id \in RowIds, cs \in ChunkSizes, co \in ChunkOverlaps,
          strict \in BOOLEAN : PreviewDocuments(id, cs, co, strict)

SpecPreview == Init /\ [][NextPreview]_vars
\* calls of generate_chunk_id between uploads and processing submissions of
\* the small world
NextChunkId ==
    \/ \E n \in Names, c \in Contents, ok \in BOOLEAN :
          /\ Len(uploads) < SmallUploads
          /\ UploadWrites(n, c, ok)
          /\ UNCHANGED upResp
    \/ \E u \in RowIds :
          /\ Len(tasks) < SmallTasks
          /\ SubmitProcessing(u)
    \/ \E k \in KbIds, n \in Names, x \in ChunkTexts, m \in ChunkMetas :
          GenerateChunkIdCall(k, n, x, m)

SpecChunkId == Init /\ [][NextChunkId]_vars
\* document cleanup jobs for the tasks and blobs of the small world
NextDocJob ==
    \/ \E n \in Names, c \in Contents, ok \in BOOLEAN :
          /\ Len(uploads) < SmallUploads
          /\ UploadWrites(n, c, ok)
          /\ UNCHANGED upResp
    \/ \E k \in KbIds : DocJobIdle /\ CreateTaskCall(k)
    \/ \E t \in DocTaskIds, p \in Paths, d \in RowIds, pr \in BOOLEAN :
          DocCleanupStart(t, p, d, pr)
    \/ \E ok \in BOOLEAN : DocCleanupChroma(ok)
    \/ \E ok \in BOOLEAN : DocCleanupMinio(ok)
    \/ DocCleanupMark

SpecDocJob == Init /\ [][NextDocJob]_vars

\* the document world in which files with a repeated passage are uploaded
\* too
NextDup ==
    \/ \E n \in Names, c \in Contents \cup {RepeatingContent}, ok \in BOOLEAN :
          UploadDocuments(n, c, ok)
    \/ \E u \in RowIds :
          /\ Len(tasks) < SmallTasks
          /\ SubmitProcessing(u)
    \/ NextWorker

SpecDup == Init /\ [][NextDup]_vars
SpecUp == Init /\ [][NextUp]_vars
SpecSync == Init /\ [][NextSync]_vars
SpecDoc == Init /\ [][NextProc]_vars
SpecDel == Init /\ [][NextDel]_vars

(* ======================= claims on SpecKb ============================== *)

\* C1: once a task's status is completed or failed, no later step changes
\* its status.
C1_TerminalImmutable ==
    [][\A t \in DOMAIN tasks :
          tasks[t].status \in TerminalStatus
              => tasks'[t].status = tasks[t].status]_vars

\* C2: a task that the worker has moved to processing or to a terminal
\* status is never set back to pending, whatever the interleaving of the
\* deletion handler and the cleanup worker.
C2_NeverBackToPending ==
    [][\A t \in DOMAIN tasks :
          tasks[t].status \in {"processing"} \cup TerminalStatus
              => tasks'[t].status # "pending"]_vars

\* C3: a failed attempt that is re-submitted (retry budget left) records the
\* error_message and leaves the task's status at processing.
C3_FailedAttemptKeepsProcessing ==
    [][\A t \in DOMAIN tasks :
          (job[t].state = "running" /\ job'[t].state = "queued")
              => /\ tasks'[t].status = "processing"
                 /\ tasks'[t].error_message # None]_vars

C6_FailedRunLeavesNoUnindexedRow ==
    \A t \in DOMAIN tasks :
        (proc[t].pc = "done" /\ tasks[t].status = "failed")
            => \A c \in chunks :
                  c.document_id = proc[t].doc
                      => \E v \in vector : v.chunk_id = c.id

\* C7: a chunk's ledger row is written only after the vector-index add for
\* that chunk has returned success: every row that enters the relational
\* store is already in the index.
C7_LedgerRowAfterIndexSuccess ==
    [][\A c \in chunks' \ chunks :
          \E v \in vector :
              v.chunk_id = c.id /\ v.document_id = c.document_id]_vars

\* C8: after a processing task ends in failed, no Document row created by
\* that task is present in the relational store.
C8_NoDocumentOfFailedTask ==
    \A t \in DOMAIN tasks :
        (proc[t].pc = "done" /\ tasks[t].status = "failed")
            => (proc[t].doc = NULL \/ ~documents[proc[t].doc].present)

\* C9: in a document deletion the blob object and the vector-index entries
\* are removed only after the relational rows of the target are deleted,
\* and vector-index entries only when the target is a Document.
C9_ExternalRemovalAfterRelational ==
    [][((~delreq.minio_deleted /\ delreq'.minio_deleted)
          \/ (~delreq.chroma_deleted /\ delreq'.chroma_deleted))
        => /\ delreq.doc # NULL => ~documents[delreq.doc].present
           /\ delreq.upload # NULL => ~uploads[delreq.upload].present
           /\ delreq'.chroma_deleted => delreq.doc # NULL]_vars

\* the relational rows of a deletion target are gone
RowsGone(docs, ups, cs, d, u) ==
    /\ d # NULL => (~docs[d].present /\ ~\E c \in cs : c.document_id = d)
    /\ u # NULL => ~ups[u].present

\* the warnings list of a response (none when the key is absent)
Warnings(resp) == IF "warnings" \in DOMAIN resp THEN resp.warnings ELSE <<>>

\* the step in which delete_document answers a request in which exactly one
\* of the blob deletion and the vector-index deletion raised
AnswersPartialFailure ==
    /\ delreq.pc = "db"
    /\ delreq'.pc = "done"
    /\ Cardinality(delreq.raised) = 1

\* C10: when deleting a document, if exactly one of blob deletion and
\* vector-index deletion fails, the relational rows are still deleted and
\* the caller receives a success response, not an error, that carries a
\* non-empty warnings list (a failure of the relational transaction itself
\* is left aside: only answered successes are constrained).
C10_SuccessWithWarnings ==
    [][(AnswersPartialFailure /\ delreq'.resp.kind = "success")
        => /\ RowsGone(documents', uploads', chunks', delreq.doc, delreq.upload)
           /\ Warnings(delreq'.resp) # <<>>]_vars

\* C11: the relational part of a document deletion is atomic: the step that
\* answers the request either deleted the chunk rows, the document row and
\* the correlated upload row together (success), or returned an error and
\* left every one of those rows present.
C11_RelationalDeletionAtomic ==
    [][(delreq.pc = "db" /\ delreq'.pc = "done")
        => \/ /\ delreq'.resp.kind = "success"
              /\ RowsGone(documents', uploads', chunks',
                          delreq.doc, delreq.upload)
           \/ /\ delreq'.resp.kind = "error"
              /\ delreq'.resp.status_code = 500
              /\ UNCHANGED <<documents, uploads, chunks>>
              /\ delreq.doc # NULL => documents'[delreq.doc].present
              /\ delreq.upload # NULL => uploads'[delreq.upload].present]_vars

\* a failed deletion of a processed document: error 500 while its chunk
\* rows, the document row and the upload row are all present
C11_Witness ==
    /\ delreq.pc = "done"
    /\ delreq.resp.kind = "error"
    /\ delreq.resp.status_code = 500
    /\ \E d \in DOMAIN documents :
          /\ documents[d].present
          /\ \E c \in chunks : c.document_id = d
          /\ \E u \in DOMAIN uploads :
                uploads[u].present /\ uploads[u].file_hash = documents[d].file_hash

(* ======================= claims on SpecKb (2) ========================== *)

C13_EndedRunIsTerminal ==
    \A t \in DOMAIN tasks :
        proc[t].pc = "done" => tasks[t].status \in TerminalStatus

(* ======================= claims on SpecDoc ============================= *)

\* C14: an upload never has two task rows, and never two processing runs
\* in flight, whatever the sequence of processing submissions.
C14_OneTaskPerUpload ==
    \A u \in DOMAIN uploads :
        /\ Cardinality({t \in DOMAIN tasks :
                           tasks[t].document_upload_id = u}) <= 1
        /\ Cardinality({t \in DOMAIN tasks :
                           /\ proc[t].upload = u
                           /\ proc[t].pc \notin {"none", "done"}}) <= 1

(* ======================= claims on SpecSync ============================ *)

\* the chunk texts under which the rows of a file were recorded
RecordedTexts(cs, name) == {r.hash[1] : r \in {x \in cs : x.file_name = name}}

\* the chunk texts of a content
TextsOf(content) == {Split(content)[i] : i \in 1..Len(Split(content))}

\* a synchronization pass starts in this step
SyncStarts == sync.pc = "idle" /\ sync'.pc # "idle"

\* C15: a synchronization pass on a file whose text is unchanged since its
\* chunks were last recorded (by a previous pass or by the background
\* processing) performs no write: zero additions and zero deletions.
C15_UnchangedTextWritesNothing ==
    [][(SyncStarts
          /\ RecordedTexts(chunks, sync'.file_name) = TextsOf(sync'.content))
        => /\ sync'.new_chunks = <<>>
           /\ get_deleted_chunks(chunks,
                  CurrentHashes(DocKb, sync'.file_name, sync'.doc,
                                sync'.content),
                  sync'.file_name) = {}]_vars

\* the rows of a file whose hash is, or is not, among the candidates' hashes
RecordedRows(cs, name) == {r \in cs : r.file_name = name}

\* C16: for one file a pass computes additions = the candidates whose hash
\* is not among the recorded hashes, and deletions = the recorded ids whose
\* hash is not among the candidates' hashes; chunks on both sides are
\* neither written nor removed; recorded {h1, h2, h3} and candidates
\* {h1, h2, h4} give additions {h4} and deletions {h3}.
C16_DiffOfHashes ==
    [][/\ SyncStarts =>
            /\ RowsOf(sync'.new_chunks) =
                  {c \in RowsOf(CandidateRows(DocKb, sync'.file_name,
                                              sync'.doc, sync'.content)) :
                      c.hash \notin {r.hash : r \in RecordedRows(chunks,
                                                        sync'.file_name)}}
            /\ (/\ {r.hash : r \in RecordedRows(chunks, sync'.file_name)} =
                     {ContentHash(t, RawMeta) : t \in {1, 2, 3}}
                /\ TextsOf(sync'.content) = {1, 2, 4})
                 => {c.hash : c \in RowsOf(sync'.new_chunks)} =
                        {ContentHash(4, RawMeta)}
       /\ (sync.pc = "add" /\ sync' # sync) =>
            /\ chunks \subseteq chunks'
            /\ chunks' \ chunks \subseteq RowsOf(sync.new_chunks)
       /\ (sync.pc = "delete" /\ sync' # sync) =>
            /\ chunks' \subseteq chunks
            /\ chunks \ chunks' =
                  {r \in RecordedRows(chunks, sync.file_name) :
                      r.hash \notin {ContentHash(t, RawMeta) :
                                       t \in TextsOf(sync.content)}}
            /\ (/\ sync.new_chunks # <<>>
                /\ {r.hash : r \in RecordedRows(chunks, sync.file_name)} =
                     {ContentHash(t, RawMeta) : t \in {1, 2, 3, 4}}
                /\ TextsOf(sync.content) = {1, 2, 4})
                 => {r.hash : r \in chunks \ chunks'} =
                        {ContentHash(3, RawMeta)}]_vars

\* the pass of the example has recorded h4 and is about to remove h3
C16_Witness ==
    /\ sync.pc = "delete"
    /\ TextsOf(sync.content) = {1, 2, 4}
    /\ {c.hash : c \in RowsOf(sync.new_chunks)} = {ContentHash(4, RawMeta)}
    /\ {r.hash : r \in RecordedRows(chunks, sync.file_name)} =
          {ContentHash(t, RawMeta) : t \in {1, 2, 3, 4}}

\* C17: within one pass every addition is in the ledger and in the vector
\* index before any deletion is removed from either: a step that removes a
\* row or an entry is the deletion step of a pass whose additions are all
\* present in both stores.
C17_AdditionsBeforeDeletions ==
    [][(~(chunks \subseteq chunks') \/ ~(vector \subseteq vector'))
        => /\ sync.pc = "delete"
           /\ RowsOf(sync.new_chunks) \subseteq chunks
           /\ VectorEntries(sync.new_chunks, NumBatches(sync.new_chunks))
                 \subseteq vector]_vars

\* a pass has written its additions to both stores and has deletions to make
C17_Witness ==
    /\ sync.pc = "delete"
    /\ sync.new_chunks # <<>>
    /\ RowsOf(sync.new_chunks) \subseteq chunks
    /\ \A r \in RowsOf(sync.new_chunks) :
          \E v \in vector : v.chunk_id = r.id
    /\ get_deleted_chunks(chunks,
           CurrentHashes(DocKb, sync.file_name, sync.doc, sync.content),
           sync.file_name) # {}

(* ======================== claims on SpecUp ============================= *)

\* the Documents of the knowledge base with this file name and content hash
Matching(name, content) ==
    {d \in DOMAIN documents :
        /\ documents[d].present
        /\ documents[d].file_name = name
        /\ documents[d].file_hash = <<"sha256", content>>}

\* C18: uploading a file whose (file_name, SHA-256) matches an existing
\* Document returns status "exists" with that document's id, writes nothing
\* to the blob store and inserts no DocumentUpload row, every time it is
\* repeated.
C18_ExistingDocumentShortCircuits ==
    [][\A n \in Names, c \in Contents, ok \in BOOLEAN :
          (UploadDocuments(n, c, ok) /\ Matching(n, c) # {})
          => /\ upResp'.kind = "result"
             /\ upResp'.status = "exists"
             /\ upResp'.id \in Matching(n, c)
             /\ UNCHANGED <<uploads, blob, tasks, documents>>]_vars

\* an upload was answered "exists" with the id of a present Document while
\* no second staging row was made
C18_Witness ==
    /\ upResp.kind = "result"
    /\ upResp.status = "exists"
    /\ documents[upResp.id].present
    /\ Len(uploads) = 1

\* C20: when the blob write of an uploaded file fails the call fails with an
\* error (HTTP 500), no DocumentUpload row is created for the file and the
\* blob store is left as it was: the write is made once, not retried.
C20_FailedBlobWriteFailsTheCall ==
    [][\A n \in Names, c \in Contents :
          (UploadDocuments(n, c, FALSE) /\ Matching(n, c) = {})
          => /\ upResp'.kind = "error"
             /\ upResp'.status_code = 500
             /\ UNCHANGED <<uploads, blob, tasks>>]_vars

\* an upload failed at the blob write and left no staging row
C20_Witness ==
    /\ upResp.kind = "error"
    /\ upResp.status_code = 500
    /\ uploads = <<>>

(* ======================== claims on SpecDoc ============================ *)

\* C19: after any sequence of uploads into one knowledge base there is at
\* most one DocumentUpload row per (file_name, file_hash).
C19_OneUploadRowPerFile ==
    \A i, j \in DOMAIN uploads :
        (/\ uploads[i].present
         /\ uploads[j].present
         /\ uploads[i].file_name = uploads[j].file_name
         /\ uploads[i].file_hash = uploads[j].file_hash)
        => i = j

(* ======================== claims on SpecExp ============================ *)

\* C21: expiring staged uploads removes every DocumentUpload row older than
\* the cutoff and no newer one; a failing blob deletion does not end the
\* call: the row is still removed and the call reports success.
C21_ExpiredRowsAlwaysRemoved ==
    [][/\ (cleanup.pc = "remove" /\ cleanup' # cleanup)
           => cleanup'.pc \in {"remove", "commit"}
       /\ (cleanup.pc = "commit" /\ cleanup'.resp.kind = "success")
           => \A u \in DOMAIN uploads :
                 uploads'[u].present =
                    (uploads[u].present
                       /\ u \notin RowsOf(cleanup.expired_uploads))]_vars

(* ======================== claims on SpecRows =========================== *)

\* the row a foreign key of a task points to is deleted in this step
KbRowDeleted(id) == id # NULL /\ kbExists[id] /\ ~kbExists'[id]
DocumentRowDeleted(id) ==
    id # NULL /\ documents[id].present /\ ~documents'[id].present
UploadRowDeleted(id) ==
    id # NULL /\ uploads[id].present /\ ~uploads'[id].present

C23_HandleOnlyAfterSubmission ==
    /\ [](\A i \in DOMAIN tasks :
            tasks[i].celery_task_id # None
               => i \in DOMAIN job /\ job[i].state # "none")
    /\ [][Len(tasks') > Len(tasks)
            => /\ tasks'[Len(tasks')].status = "pending"
               /\ tasks'[Len(tasks')].celery_task_id = None]_vars

\* the handler has submitted the message and then written the handle
C23_Witness ==
    \E k \in KbIds :
        /\ hpc[k] = "done"
        /\ htask[k] \in DOMAIN tasks
        /\ tasks[htask[k]].celery_task_id # None
        /\ job[htask[k]].state # "none"

(* ======================= claims on SpecDel (3) ========================= *)

\* the background run of task t ends in this step at the blob download, at
\* the blob move or at chunking, embedding and indexing
ProcessingFailure(t) ==
    /\ proc[t].pc \in {"prepare", "move", "index"}
    /\ proc'[t].pc = "done"

\* C24: a chunking, embedding, blob or index failure during document
\* processing sets the task to failed with the error text in
\* error_message, and the run is neither re-enqueued nor retried.
C24_FailureIsRecordedOnce ==
    [][\A t \in DocTaskIds :
          /\ ProcessingFailure(t)
               => /\ tasks'[t].status = "failed"
                  /\ Truthy(tasks'[t].error_message)
          /\ proc[t].pc = "done" => proc'[t].pc = "done"]_vars

(* ======================== claims on SpecTask =========================== *)

\* the operations that address an existing task by its id
TaskAddressingOps ==
    {"update_status", "mark_processing", "mark_completed", "mark_failed",
     "process_document_background"}

\* C25: an operation that addresses a task id with no row is a no-op that
\* raises no error: update_status and the mark_* helpers return None and
\* write nothing, and the document-processing worker returns without
\* changing any task, document, blob or vector-index state.
C25_MissingTaskIsNoOp ==
    [][(/\ call' # call
        /\ call'.op \in TaskAddressingOps
        /\ call'.task_id \notin DOMAIN tasks)
       => /\ call'.returned = None
          /\ ~call'.raised
          /\ UNCHANGED <<tasks, uploads, documents, chunks, blob,
                         vector>>]_vars

\* update_status was called for an id without a row while rows exist
C25_Witness ==
    /\ call.op = "update_status"
    /\ call.task_id \notin DOMAIN tasks
    /\ call.returned = None
    /\ tasks # <<>>

(* ======================== claims on SpecSub ============================ *)

\* the positions of a result list that are to be processed
Unskipped(rs) == {i \in DOMAIN rs : ~rs[i].skip_processing}

\* C26: an upload result marked exists / skip_processing never produces a
\* task row or a queued run: every new task and every new run belongs to an
\* entry that is not skipped, and there are no more of them than such
\* entries; a submission whose entries are all skipped answers with an
\* empty task list and writes nothing.
C26_SkippedEntriesMakeNoTask ==
    [][(call' # call /\ call'.op = "process_documents")
       => LET rs == call'.upload_results
              new == (Len(tasks) + 1)..Len(tasks')
          IN  /\ Cardinality(new) <= Cardinality(Unskipped(rs))
              /\ \A t \in new :
                    /\ \E i \in Unskipped(rs) :
                          tasks'[t].document_upload_id = rs[i].id
                    /\ proc'[t].pc = "queued"
              /\ \A t \in DOMAIN proc :
                    t \notin new => proc'[t] = proc[t]
              /\ Len(call'.tasks) = Cardinality(new)
              /\ Unskipped(rs) = {}
                    => /\ call'.tasks = <<>>
                       /\ UNCHANGED <<tasks, proc>>]_vars

\* a submission of an exists entry and a pending entry of the same id made
\* one task, and an all-skipped submission is possible as well
C26_Witness ==
    /\ call.op = "process_documents"
    /\ Len(call.upload_results) = 2
    /\ call.upload_results[1].status = "exists"
    /\ ~call.upload_results[2].skip_processing
    /\ Len(call.tasks) = 1

(* ======================= claims on SpecKbSvc =========================== *)

C29_UnverifiedUploadIsAccepted ==
    [][(call' # call /\ call'.op = "upload_documents")
       => LET v == call'.verify
          IN  /\ v.checks \in 1..max_attempts
              /\ max_attempts = 5
              /\ Len(v.sleeps) >= v.checks - 1
              /\ Len(v.sleeps) = IF v.verified THEN v.checks - 1
                                 ELSE v.checks
              /\ ~v.verified
                    => /\ v.checks = max_attempts
                       /\ Len(uploads') = Len(uploads) + 1
                       /\ uploads'[Len(uploads')].present
                       /\ uploads'[Len(uploads')].status = "pending"
                       /\ upResp'.kind = "result"
                       /\ upResp'.status = "pending"
                       /\ upResp'.id = Len(uploads')]_vars

\* an upload none of whose five checks confirmed the size has its row
C29_Witness ==
    /\ call.op = "upload_documents"
    /\ ~call.verify.verified
    /\ call.verify.checks = max_attempts
    /\ call.upload_id \in DOMAIN uploads
    /\ uploads[call.upload_id].status = "pending"

(* ======================= claims on SpecPreview ========================= *)

\* the configurations the specification calls invalid
InvalidChunkConfig(chunk_size, chunk_overlap) ==
    \/ chunk_overlap >= chunk_size
    \/ chunk_size <= 0
    \/ chunk_overlap < 0

\* C30: a chunking configuration with chunk_overlap >= chunk_size (or
\* chunk_size <= 0, or chunk_overlap < 0) is rejected with a validation
\* error before anything else happens: no blob is read and the text
\* splitter is never reached.
C30_InvalidConfigRejected ==
    (/\ call.op = "preview_documents"
     /\ call.result # "not_found"
     /\ InvalidChunkConfig(call.chunk_size, call.chunk_overlap))
    => /\ call.result = "validation_error"
       /\ ~call.blob_read
       /\ ~call.splitter_reached

(* ======================= claims on SpecChunkId ========================= *)

C32_IdDerivedFromStoredHash ==
    \A r \in chunks : r.id = <<DocKb, r.file_name, r.hash>>

(* ==================== further claims on SpecDel ======================== *)

\* the Document of a completed task: present, made from the task's upload
\* and stored at the permanent path
DocumentOf(ts, docs, ups, t) ==
    /\ ts[t].document_id \in DOMAIN docs
    /\ docs[ts[t].document_id].present
    /\ docs[ts[t].document_id].file_path =
          PermPath(docs[ts[t].document_id].file_name)
    /\ ts[t].document_upload_id # NULL
          => /\ ups[ts[t].document_upload_id].status = "completed"
             /\ docs[ts[t].document_id].file_hash =
                   ups[ts[t].document_upload_id].file_hash

\* C33 as stated: whenever a processing task is in status completed, a
\* Document row exists for it with the upload's file_hash, the task's
\* document_id references it, the upload is completed, and the blob is at
\* the permanent path and no longer at the temp path.
C33_CompletedHasDocument ==
    \A t \in DOMAIN tasks :
        tasks[t].status = "completed"
        => /\ DocumentOf(tasks, documents, uploads, t)
           /\ blob[PermPath(proc[t].file_name)] # 0
           /\ blob[TempPath(proc[t].file_name)] = 0

\* C33 amended: at the step that sets a processing task to completed, the
\* Document row of the run exists with the upload's file_hash, the task's
\* document_id references it and the upload is set to completed in the
\* same commit; the run is then past its move step, which copied the staged
\* blob to the permanent path and removed it from the temp path.
C33_CompletionCommitsDocument ==
    [][\A t \in DOMAIN tasks :
          (tasks[t].status # "completed" /\ tasks'[t].status = "completed")
          => /\ DocumentOf(tasks', documents', uploads', t)
             /\ tasks'[t].document_id = proc[t].doc
             /\ proc[t].pc = "finish"]_vars
    /\ [][\A t \in DOMAIN tasks :
            (proc[t].pc = "move" /\ proc'[t].pc = "document")
            => /\ blob'[PermPath(proc[t].file_name)] =
                     blob[TempPath(proc[t].file_name)]
               /\ blob'[TempPath(proc[t].file_name)] = 0]_vars

\* a task is completed with its Document and its completed upload
C33_Witness ==
    \E t \in DOMAIN tasks :
        /\ tasks[t].status = "completed"
        /\ tasks[t].document_upload_id # NULL
        /\ DocumentOf(tasks, documents, uploads, t)

(* ======================= claims on SpecKbJob =========================== *)

\* C34: every execution of the knowledge-base cleanup job that has ended
\* has closed its database session once; it has requested a retry exactly
\* when the cleanup work raised, and it marked the task completed only
\* when the work did not raise.
C34_SessionClosedOncePerRun ==
    /\ [](\A t \in 1..MaxTasks :
            job[t].state \in {"queued", "done", "exhausted"}
            => /\ job[t].closes = job[t].runs
               /\ job[t].retried <=> job[t].last = "work_raised")
    /\ [][\A t \in DOMAIN tasks :
            (/\ t \in 1..MaxTasks
             /\ job[t].state = "running"
             /\ job'[t].state # "running"
             /\ tasks'[t].status = "completed")
            => job'[t].last = "completed"]_vars

(* ======================= claims on SpecDocJob ========================== *)

\* C35: when the document cleanup job has ended, its task is completed if
\* neither store deletion failed, and failed with the errors recorded if
\* at least one failed; it is never left in processing.
C35_DocCleanupSettlesTask ==
    (/\ call.op = "cleanup_doc_task"
     /\ call.pc \in {"returned", "aborted"})
    => /\ call.error = {} => tasks[call.task_id].status = "completed"
       /\ call.error # {}
            => /\ tasks[call.task_id].status = "failed"
               /\ tasks[call.task_id].error_message # None
       /\ tasks[call.task_id].status # "processing"

(* ======================= claims on SpecExp, continued ================== *)

\* C36: between the operations (uploads, processing runs that succeeded or
\* failed, expirations), every DocumentUpload row in status pending has a
\* staged blob at its temp_path whose content hashes to the file_hash of
\* the row.
C36_PendingUploadIsStaged ==
    (Quiescent /\ cleanup.pc = "idle")
    => \A u \in DOMAIN uploads :
          (uploads[u].present /\ uploads[u].status = "pending")
          => /\ blob[uploads[u].temp_path] # 0
             /\ FileHash(blob[uploads[u].temp_path]) = uploads[u].file_hash

(* ======================= claims on SpecDoc, continued ================== *)

\* C37: the step at which a processing task ends in status failed leaves
\* every Document of a completed task as it was: its row, its chunk
\* rows and the blob at its permanent path are unchanged, also when the
\* failed upload has the file_name of the existing Document.
C37_FailedRunKeepsDocuments ==
    [][\A t \in DOMAIN tasks :
         (tasks[t].status # "failed" /\ tasks'[t].status = "failed")
         => \A d \in DOMAIN documents :
               (/\ documents[d].present
                /\ \E o \in DOMAIN tasks :
                      /\ tasks[o].status = "completed"
                      /\ tasks[o].document_id = d)
               => /\ documents'[d] = documents[d]
                  /\ {c \in chunks' : c.document_id = d}
                       = {c \in chunks : c.document_id = d}
                  /\ blob'[documents[d].file_path]
                       = blob[documents[d].file_path]]_vars

(* ======================= claims on SpecSubKb =========================== *)

\* C38: every processing task created by a submission for knowledge base K
\* is for a DocumentUpload row that belongs to K.
C38_TasksOnlyForOwnUploads ==
    \A t \in DOMAIN tasks :
        tasks[t].document_upload_id # NULL
        => UploadKb(tasks[t].document_upload_id) = tasks[t].knowledge_base_id

(* ======================= claims on SpecDup ============================= *)

\* C39: a processing run never has two DocumentChunk rows with the same id
\* to insert: chunks with identical text and metadata are recorded once.
C39_NoTwoRowsWithOneId ==
    \A t \in DocTaskIds :
        \A i, j \in 1..Len(proc[t].pending) :
            i # j => proc[t].pending[i].id # proc[t].pending[j].id

(* ======================= claims on SpecKbFair ========================== *)

\* C40: every ProcessingTask row that is created is eventually picked up by
\* a worker or marked failed, also when the queue submission fails: no
\* task stays pending forever without a run.
C40_NoTaskIsLost ==
    \A t \in 1..MaxTasks :
        (t \in DOMAIN tasks)
        ~> (\/ job[t].runs > 0
            \/ t \in DOMAIN tasks /\ tasks[t].status = "failed")

====
